---- MODULE Spec2Model ----
(***************************************************************************)
(* Model of the HPI archive codec of totala-re: hpi_assembler.py (the      *)
(* writer) and hpi_parser.py (the reader).                                 *)
(*                                                                         *)
(* Bytes are integers 0..255, byte strings are sequences of bytes, text    *)
(* is a sequence of ASCII codes.  These specifications share the module:   *)
(*   SpecObf         the obfuscation layer on its own,                     *)
(*   SpecSqsh        the SQSH chunk codec on its own,                      *)
(*   Spec            an assembler session followed by a parser session,    *)
(*   SpecUnsupported the same with a compression mode outside {0, 1, 2},   *)
(*   SpecDamaged     chunks and archives altered between writing and       *)
(*                   reading,                                              *)
(*   SpecForeign     a parser session on archives of another writer,       *)
(*   SpecReference   the module-level assemble with a reference archive,   *)
(*   SpecLz77        the LZ77 codec on its own, the decoder pass by pass,  *)
(*   SpecLz77Live    the same with the decoder's steps weakly fair.        *)
(***************************************************************************)
EXTENDS Integers, Sequences, FiniteSets, TLC

VARIABLES
    \* ---- obfuscation session (SpecObf)
    oPhase,            \* "idle" | "plain" | "stored" | "back"
    oKey,              \* the raw key byte K (header byte 12)
    oPlain,            \* the buffer the assembler built
    oStored,           \* _encrypt_data(oPlain, transformed_key)
    oBack,             \* _decrypt_data(oStored, transformed_key)
    \* ---- SQSH chunk session (SpecSqsh)
    cPhase,            \* "idle" | "plain" | "packed" | "unpacked"
    cMode,             \* the assembler's compression_mode
    cData,             \* the uncompressed chunk
    cChunk,            \* _compress_sqsh_chunk(cData)
    cResult,           \* _decompress_sqsh_chunk(cChunk): [err, data]
    \* ---- assembler session, then parser session (Spec)
    phase,             \* how far the two sessions have got
    fs,                \* the extracted_root directory on disk
    iter_order,        \* the order in which the filesystem lists children
    compression_mode,  \* HPIAssembler.compression_mode
    encryption_key,    \* HPIAssembler.encryption_key (the raw key byte)
    root_dir,          \* HPIAssembler.root_dir
    buffer,            \* HPIAssembler.buffer
    current_offset,    \* HPIAssembler.current_offset
    dir_offset,        \* assemble(): dir_offset
    header,            \* assemble(): header
    archive,           \* the bytes of the output file
    p_header,          \* HPIParser.header
    decrypted_data,    \* HPIParser.decrypted_data
    root_entries,      \* HPIParser.root_entries
    path_index,        \* HPIParser.path_index, a list of [key, entry]
    extracted,         \* the destination tree of extract_all, a list of [path, data]
    p_err,             \* the exception that ended the parser session, "" if none
    \* ---- reference validation of the module-level assemble (SpecReference)
    reference,         \* the bytes of reference_hpi, <<>> when none is given
    missing,           \* the list missing of assemble
    mismatched,        \* the list mismatched of assemble
    \* ---- the LZ77 codec, the decoder pass by pass (SpecLz77)
    lzPhase,           \* "idle" | "plain" | "coded" | "running" | "done"
    lzData,            \* the input of _compress_lz77, <<>> when a stream is given
    lzRefs,            \* the back-references _compress_lz77 emitted
    lzSrc,             \* src of _decompress_lz77
    lzSize,            \* expected_size of _decompress_lz77
    lzD,               \* the locals of _decompress_lz77 between two passes
    lzOut              \* the value _decompress_lz77 returned

obfVars == <<oPhase, oKey, oPlain, oStored, oBack>>
sqshVars == <<cPhase, cMode, cData, cChunk, cResult>>

asmVars == <<fs, iter_order, compression_mode, encryption_key, root_dir, buffer,
             current_offset, dir_offset, header, archive>>
parserVars == <<p_header, decrypted_data, root_entries, path_index, extracted, p_err>>
archiveVars == <<phase, asmVars, parserVars>>

refVars == <<reference, missing, mismatched>>

lzVars == <<lzPhase, lzData, lzRefs, lzSrc, lzSize, lzD, lzOut>>

vars == <<obfVars, sqshVars, archiveVars, refVars, lzVars>>

(***************************************************************************)
(* Bounds of the model.                                                    *)
(***************************************************************************)
\* length of the long obfuscation buffers: beyond 236, so that the position
\* byte (i + 0x14) & 0xFF wraps inside the buffer
MaxObfLen == 240

(***************************************************************************)
(* Integer helpers: Python's bit operators on non-negative integers.       *)
(***************************************************************************)
RECURSIVE BitXor(_, _)
BitXor(a, b) ==
    IF a = 0 THEN b
    ELSE IF b = 0 THEN a
    ELSE (((a % 2) + (b % 2)) % 2) + 2 * BitXor(a \div 2, b \div 2)

RECURSIVE BitAnd(_, _)
BitAnd(a, b) ==
    IF a = 0 \/ b = 0 THEN 0
    ELSE (IF a % 2 = 1 /\ b % 2 = 1 THEN 1 ELSE 0) + 2 * BitAnd(a \div 2, b \div 2)

RECURSIVE BitOr(_, _)
BitOr(a, b) ==
    IF a = 0 THEN b
    ELSE IF b = 0 THEN a
    ELSE (IF a % 2 = 1 \/ b % 2 = 1 THEN 1 ELSE 0) + 2 * BitOr(a \div 2, b \div 2)

\* (~v) & 0xFF for any integer v: ~v = -v - 1 in two's complement
InvByte(v) == (-v - 1) % 256

Byte == 0..255

(***************************************************************************)
(* 4.1 Obfuscation layer.                                                  *)
(***************************************************************************)
\* HPIAssembler.__init__: self.transformed_key, the effective key K'
transformed_key(K) ==
    IF K # 0
    THEN BitXor(BitAnd(BitOr(K \div 64, K * 4), 255), 255)
    ELSE 0

\* HPIHeader.__init__: self.transformed_key, as the parser derives it
header_transformed_key(K) ==
    IF K # 0
    THEN BitXor(BitAnd(BitOr(K \div 64, K * 4), 255), 255)
    ELSE 0

\* position byte of buffer index i (0-based)
PosByte(i) == BitAnd(i + 20, 255)

\* a transform that forgets the inversion of the data byte
EncryptNoInvert(data, key) ==
    IF key = 0 THEN data
    ELSE [i \in 1..Len(data) |-> BitXor(BitXor(PosByte(i - 1), key), data[i])]

\* HPIAssembler._encrypt_data
_encrypt_data(data, key) ==
    IF key = 0 THEN data
    ELSE [i \in 1..Len(data) |->
            InvByte(BitXor(BitXor(PosByte(i - 1), key), data[i]))]

\* HPIParser._decrypt_data (start_offset = 0x14)
_decrypt_data(data, key) ==
    IF key = 0 THEN data
    ELSE [i \in 1..Len(data) |->
            BitXor(BitXor(PosByte(i - 1), key), InvByte(data[i]))]

(***************************************************************************)
(* Byte-string helpers.                                                    *)
(***************************************************************************)
Min(a, b) == IF a < b THEN a ELSE b
Max(a, b) == IF a > b THEN a ELSE b

\* Python's s[i:j] on a sequence, i and j 0-based, either may be negative
\* (counted from the end) or beyond the end (clamped)
PyIndex(n, i) == IF i < 0 THEN Max(n + i, 0) ELSE Min(i, n)
PySlice(s, i, j) ==
    LET a == PyIndex(Len(s), i)
        b == PyIndex(Len(s), j)
    IN  IF a >= b THEN <<>> ELSE SubSeq(s, a + 1, b)

Zeros(n) == [i \in 1..n |-> 0]

\* struct.pack("<I", v)
PackU32(v) ==
    <<v % 256, (v \div 256) % 256, (v \div 65536) % 256, (v \div 16777216) % 256>>

\* struct.unpack_from("<I", s, idx)[0] for an idx inside s (0-based)
UnpackU32(s, idx) ==
    s[idx + 1] + 256 * s[idx + 2] + 65536 * s[idx + 3] + 16777216 * s[idx + 4]

\* struct.pack_into("<I", s, idx, v): overwrite four bytes in place
PackInto(s, idx, v) ==
    [i \in 1..Len(s) |->
        IF i > idx /\ i <= idx + 4 THEN PackU32(v)[i - idx] ELSE s[i]]

\* v & 0xFFFFFFFF for 0 <= v < 2^31, where it is the identity: the byte sums
\* of the model (and of any chunk of at most 64 KiB) stay far below 2^31
Mask32(v) == v

\* sum(bytes)
RECURSIVE SumBytes(_)
SumBytes(s) == IF s = <<>> THEN 0 ELSE Head(s) + SumBytes(Tail(s))

(***************************************************************************)
(* 4.3 The bespoke LZ77 codec.                                             *)
(***************************************************************************)
WindowSize == 4096
MaxMatch == 17

\* bytearray(4096): the dictionary, all zero at first.  It is kept as the
\* function of the indices written so far; every other index reads 0.
NewWindow == <<>>
WinGet(window, i) == IF i \in DOMAIN window THEN window[i] ELSE 0
WinSet(window, i, byte) ==
    [j \in (DOMAIN window) \cup {i} |-> IF j = i THEN byte ELSE window[j]]

\* window[(window_pos - offset + k) & 0xFFF]
WinAt(window, window_pos, offset, k) ==
    WinGet(window, (window_pos - offset + k) % WindowSize)

MinOf(S) == CHOOSE m \in S : \A x \in S : m <= x
MaxOf(S) == CHOOSE m \in S : \A x \in S : m >= x

\* the inner while loop: the length of the match of data[pos:] against the
\* window read from window_pos - offset on, at most max_match; 0 when the
\* first byte differs (the candidate is skipped)
MatchLenAt(data, pos, window, window_pos, offset, max_match) ==
    IF WinAt(window, window_pos, offset, 0) # data[pos + 1] THEN 0
    ELSE MinOf({m \in 1..(max_match - 1) :
                    WinAt(window, window_pos, offset, m) # data[pos + m + 1]}
               \cup {max_match})

\* the result of the search, given the match length of every offset tried:
\* the first offset, in ascending order, that reaches the longest match
BestMatch(window_pos, lenOf) ==
    IF DOMAIN lenOf = {} \/ \A o \in DOMAIN lenOf : lenOf[o] = 0
    THEN [offset |-> 0, length |-> 0]
    ELSE LET best == MaxOf({lenOf[o] : o \in DOMAIN lenOf})
             at == (window_pos - MinOf({o \in DOMAIN lenOf : lenOf[o] = best}))
                       % WindowSize
         IN  [offset |-> IF at = 0 THEN WindowSize ELSE at, length |-> best]

\* a search that also tries offset = window_pos, the index 0
FindMatchToCursor(data, pos, window, window_pos) ==
    BestMatch(window_pos,
              [o \in 1..Min(window_pos, WindowSize) |->
                  MatchLenAt(data, pos, window, window_pos, o,
                             Min(MaxMatch, Len(data) - pos))])

\* the search loop of _compress_lz77 (lines 256-283)
FindMatch(data, pos, window, window_pos) ==
    BestMatch(window_pos,
              [o \in 1..(Min(window_pos, WindowSize) - 1) |->
                  MatchLenAt(data, pos, window, window_pos, o,
                             Min(MaxMatch, Len(data) - pos))])

\* "Update window" of a back-reference: the matched input bytes are written
\* at the cursor; e = [pos, window, window_pos, output, refs]
RECURSIVE WindowWrite(_, _)
WindowWrite(e, bytes) ==
    IF bytes = <<>> THEN e
    ELSE WindowWrite([e EXCEPT !.window = WinSet(@, e.window_pos, Head(bytes)),
                               !.window_pos = (e.window_pos + 1) % WindowSize],
                     Tail(bytes))

\* the two bytes of a back-reference: encoded & 0xFF, (encoded >> 8) & 0xFF
EncodedBytes(encoded) == <<encoded % 256, (encoded \div 256) % 256>>

\* one symbol of the encoder, given the match m found at e.pos (lines
\* 285-313): [e, bit], bit being the symbol's control bit.  e.refs lists
\* the back-references emitted so far: best_match_offset, best_match_length,
\* the input bytes left at the symbol, and the value of encoded
Lz77Emit(e, data, m) ==
    IF m.length >= 2
    THEN [e |-> WindowWrite(
                    [e EXCEPT !.pos = e.pos + m.length,
                              !.output = @ \o EncodedBytes(
                                  m.offset * 16 + ((m.length - 2) % 16)),
                              !.refs = Append(@,
                                  [offset |-> m.offset, length |-> m.length,
                                   remaining |-> Len(data) - e.pos,
                                   encoded |-> m.offset * 16
                                                + ((m.length - 2) % 16)])],
                    SubSeq(data, e.pos + 1, e.pos + m.length)),
          bit |-> 1]
    ELSE [e |-> [e EXCEPT !.pos = e.pos + 1,
                          !.window = WinSet(@, e.window_pos, data[e.pos + 1]),
                          !.window_pos = (e.window_pos + 1) % WindowSize,
                          !.output = Append(@, data[e.pos + 1])],
          bit |-> 0]

Lz77Symbol(e, data) == Lz77Emit(e, data, FindMatch(data, e.pos, e.window, e.window_pos))

\* the for loop over the (up to) eight symbols of a block: [e, control_byte]
RECURSIVE Lz77Block(_, _, _, _)
Lz77BlockNext(r, data, bit_idx, control_byte) ==
    Lz77Block(r.e, data, bit_idx + 1, control_byte + r.bit * (2 ^ bit_idx))

Lz77Block(e, data, bit_idx, control_byte) ==
    IF bit_idx >= 8 \/ e.pos >= Len(data)
    THEN [e |-> e, control_byte |-> control_byte]
    ELSE Lz77BlockNext(Lz77Symbol(e, data), data, bit_idx, control_byte)

\* output[chunk_start] = control_byte at the end of a block
Lz77BlockEnd(r, chunk_start) ==
    [r.e EXCEPT !.output[chunk_start] = r.control_byte]

\* the while loop over blocks: reserve the control byte, encode the block,
\* write the control byte back; the state when the input is used up
RECURSIVE Lz77Blocks(_, _)
Lz77Blocks(e, data) ==
    IF e.pos >= Len(data) THEN e
    ELSE Lz77Blocks(
             Lz77BlockEnd(Lz77Block([e EXCEPT !.output = Append(@, 0)], data, 0, 0),
                          Len(e.output) + 1),
             data)

\* the encoder's state at the end of its loop
Lz77Encoding(data) ==
    Lz77Blocks([pos |-> 0, window |-> NewWindow, window_pos |-> 1,
                output |-> <<>>, refs |-> <<>>], data)

\* HPIAssembler._compress_lz77
_compress_lz77(data) ==
    IF data = <<>> THEN <<>> ELSE Lz77Encoding(data).output

\* one byte emitted by the decoder: appended to the output and written to
\* the dictionary at the cursor; d = [dbuf, w1, w2, w3, in_pos, out]
Lz77Out(d, byte) ==
    [d EXCEPT !.out = Append(@, byte),
              !.dbuf = WinSet(@, d.w1, byte),
              !.w1 = (d.w1 + 1) % WindowSize]

\* a run that emits its bytes without writing them to the dictionary
RECURSIVE Lz77RunNoWriteBack(_, _, _, _)
Lz77RunNoWriteBackNext(d1, dptr, left, expected_size) ==
    IF Len(d1.out) >= expected_size THEN d1
    ELSE Lz77RunNoWriteBack(d1, (dptr + 1) % WindowSize, left - 1, expected_size)

Lz77RunNoWriteBack(d, dptr, left, expected_size) ==
    IF left = 0 THEN d
    ELSE Lz77RunNoWriteBackNext([d EXCEPT !.out = Append(@, WinGet(d.dbuf, dptr)),
                                          !.w1 = (d.w1 + 1) % WindowSize],
                                dptr, left, expected_size)

\* the run of a back-reference in the decoder (lines 281-288); stops early
\* when the declared size is reached
RECURSIVE Lz77Run(_, _, _, _)
Lz77RunNext(d1, dptr, left, expected_size) ==
    IF Len(d1.out) >= expected_size THEN d1
    ELSE Lz77Run(d1, (dptr + 1) % WindowSize, left - 1, expected_size)

\* the state after each byte is bound through a singleton set, so that it is
\* computed once however often the rest of the run refers to it
Lz77Run(d, dptr, left, expected_size) ==
    IF left = 0 THEN d
    ELSE CHOOSE r \in {Lz77RunNext(d1, dptr, left, expected_size) :
                          d1 \in {Lz77Out(d, WinGet(d.dbuf, dptr))}} : TRUE

\* the tail of one iteration (lines 289-299): shift the flag mask, fetch the
\* next flag byte after eight symbols; [d, stop], stop when the loop is left
Lz77NextFlag(d, src) ==
    IF BitAnd(d.w2 * 2, 256) # 0
    THEN IF d.in_pos >= Len(src)
         THEN [d |-> [d EXCEPT !.w2 = 1], stop |-> TRUE]
         ELSE [d |-> [d EXCEPT !.w2 = 1, !.w3 = src[d.in_pos + 1],
                               !.in_pos = d.in_pos + 1],
               stop |-> FALSE]
    ELSE [d |-> [d EXCEPT !.w2 = d.w2 * 2], stop |-> FALSE]

\* a decoder that copies from index 0 like from any other index
Lz77BackRefNoSentinel(d, count, src, expected_size) ==
    Lz77NextFlag(Lz77Run(d, count \div 16, (count % 16) + 2, expected_size), src)

\* a back-reference whose 16-bit value is count, read by the state d:
\* [d, stop]; a source index of 0 leaves the loop
Lz77BackRef(d, count, src, expected_size) ==
    IF count \div 16 = 0 THEN [d |-> d, stop |-> TRUE]
    ELSE CHOOSE n \in {Lz77NextFlag(d1, src) :
                          d1 \in {Lz77Run(d, count \div 16, (count % 16) + 2,
                                          expected_size)}} : TRUE

\* a pass that goes on to the flag shift when a literal is due and the
\* source is exhausted, instead of leaving the loop
Lz77IterationNoBreak(d, src, expected_size) ==
    IF BitAnd(d.w2, d.w3) = 0
    THEN IF d.in_pos >= Len(src) THEN [d |-> d, stop |-> FALSE]
         ELSE Lz77NextFlag(Lz77Out([d EXCEPT !.in_pos = d.in_pos + 1],
                                   src[d.in_pos + 1]), src)
    ELSE IF d.in_pos + 1 >= Len(src) THEN [d |-> d, stop |-> TRUE]
         ELSE Lz77BackRef([d EXCEPT !.in_pos = d.in_pos + 2],
                          src[d.in_pos + 1] + 256 * src[d.in_pos + 2],
                          src, expected_size)

\* one pass of the while loop (lines 264-299) from a state with
\* len(out) < expected_size: [d, stop], stop when the pass ends in a break
Lz77Iteration(d, src, expected_size) ==
    IF BitAnd(d.w2, d.w3) = 0
    THEN \* literal
         IF d.in_pos >= Len(src) THEN [d |-> d, stop |-> TRUE]
         ELSE Lz77NextFlag(Lz77Out([d EXCEPT !.in_pos = d.in_pos + 1],
                                   src[d.in_pos + 1]), src)
    ELSE \* back-reference
         IF d.in_pos + 1 >= Len(src) THEN [d |-> d, stop |-> TRUE]
         ELSE Lz77BackRef([d EXCEPT !.in_pos = d.in_pos + 2],
                          src[d.in_pos + 1] + 256 * src[d.in_pos + 2],
                          src, expected_size)

\* the while loop of the decoder
RECURSIVE Lz77Decode(_, _, _)
Lz77Continue(n, src, expected_size) ==
    IF n.stop THEN n.d ELSE Lz77Decode(n.d, src, expected_size)

Lz77Decode(d, src, expected_size) ==
    IF Len(d.out) >= expected_size THEN d
    ELSE Lz77Continue(Lz77Iteration(d, src, expected_size), src, expected_size)

\* the state before the loop (lines 251-261), src not empty
Lz77Begin(src) ==
    [dbuf |-> NewWindow, w1 |-> 1, w2 |-> 1, w3 |-> src[1], in_pos |-> 1,
     out |-> <<>>]

\* the decoder's state at the end of its loop
Lz77Final(src, expected_size) == Lz77Decode(Lz77Begin(src), src, expected_size)

\* HPIParser._decompress_lz77
_decompress_lz77(src, expected_size) ==
    IF src = <<>> THEN <<>>
    ELSE PySlice(Lz77Final(src, expected_size).out, 0, expected_size)

(***************************************************************************)
(* zlib, the library behind selector 2.  compress is modelled by a valid   *)
(* zlib stream that holds the data in one stored deflate block (2-byte     *)
(* header, block header, LEN, NLEN, the bytes, Adler-32 big-endian);       *)
(* decompress accepts exactly such streams and raises on anything else.    *)
(***************************************************************************)
RECURSIVE AdlerAB(_, _, _)
AdlerAB(s, a, b) ==
    IF s = <<>> THEN <<a, b>>
    ELSE AdlerAB(Tail(s), (a + Head(s)) % 65521, (b + ((a + Head(s)) % 65521)) % 65521)

AdlerBytes(ab) == <<ab[2] \div 256, ab[2] % 256, ab[1] \div 256, ab[1] % 256>>

Adler32BE(s) == AdlerBytes(AdlerAB(s, 1, 0))

\* zlib.compress(data, level=9)
zlib_compress(data) ==
    <<120, 218, 1>>
        \o <<Len(data) % 256, Len(data) \div 256>>
        \o <<255 - (Len(data) % 256), 255 - (Len(data) \div 256)>>
        \o data \o Adler32BE(data)

\* the stored block of n bytes that payload claims to hold
ZlibStored(payload, n) ==
    IF /\ payload[6] = 255 - payload[4]
       /\ payload[7] = 255 - payload[5]
       /\ Len(payload) >= 11 + n
       /\ SubSeq(payload, 8 + n, 11 + n) = Adler32BE(SubSeq(payload, 8, 7 + n))
    THEN [ok |-> TRUE, data |-> SubSeq(payload, 8, 7 + n)]
    ELSE [ok |-> FALSE, data |-> <<>>]

\* zlib.decompress(payload): [ok, data]; ok = FALSE models zlib.error
zlib_decompress(payload) ==
    IF Len(payload) < 11 \/ SubSeq(payload, 1, 3) # <<120, 218, 1>>
    THEN [ok |-> FALSE, data |-> <<>>]
    ELSE ZlibStored(payload, payload[4] + 256 * payload[5])

(***************************************************************************)
(* 4.2 The SQSH chunk codec.                                               *)
(***************************************************************************)
SqshHeaderSize == 19
SqshMagic == <<83, 81, 83, 72>>            \* b"SQSH"

\* a payload that is compressed also when the mode asks for none
CompressPayloadNeverStored(data, mode) ==
    CASE mode = 0 -> _compress_lz77(data)
      [] mode = 1 -> _compress_lz77(data)
      [] mode = 2 -> zlib_compress(data)

\* the compressed payload of mode 0, 1 or 2 (lines 196-204)
CompressPayload(data, mode) ==
    CASE mode = 0 -> data
      [] mode = 1 -> _compress_lz77(data)
      [] mode = 2 -> zlib_compress(data)

\* the checksum taken over the plaintext instead of the payload
SqshFrameChecksumOfInput(data, mode, compressed_payload) ==
    SqshMagic \o <<0, mode, 0>>
        \o PackU32(Len(compressed_payload))
        \o PackU32(Len(data))
        \o PackU32(Mask32(SumBytes(data)))
        \o compressed_payload

\* the 19-byte header (lines 208-221) followed by the payload
SqshFrame(data, mode, compressed_payload) ==
    SqshMagic \o <<0, mode, 0>>
        \o PackU32(Len(compressed_payload))
        \o PackU32(Len(data))
        \o PackU32(Mask32(SumBytes(compressed_payload)))
        \o compressed_payload

\* HPIAssembler._compress_sqsh_chunk, for a compression mode in {0, 1, 2}
_compress_sqsh_chunk(data, mode) == SqshFrame(data, mode, CompressPayload(data, mode))

\* the per-chunk obfuscation of the payload (lines 231-234)
SqshUnobfuscate(payload) ==
    [i \in 1..Len(payload) |->
        BitXor((payload[i] - ((i - 1) % 256)) % 256, (i - 1) % 256)]

\* [err, data] of a zlib result
SqshOfZlib(z, uncompressed_size) ==
    IF z.ok
    THEN [err |-> "", data |-> PySlice(z.data, 0, uncompressed_size)]
    ELSE [err |-> "zlib.error", data |-> <<>>]

\* a dispatch that takes every unknown selector for the stored one
SqshDispatchUnknownAsStored(compression_type, uncompressed_size, payload) ==
    CASE compression_type = 1 ->
            [err |-> "",
             data |-> PySlice(_decompress_lz77(payload, uncompressed_size),
                              0, uncompressed_size)]
      [] compression_type = 2 ->
            SqshOfZlib(zlib_decompress(payload), uncompressed_size)
      [] OTHER -> [err |-> "", data |-> PySlice(payload, 0, uncompressed_size)]

\* the dispatch on the compression selector (lines 236-247)
SqshDispatch(compression_type, uncompressed_size, payload) ==
    CASE compression_type = 0 ->
            [err |-> "", data |-> PySlice(payload, 0, uncompressed_size)]
      [] compression_type = 1 ->
            [err |-> "",
             data |-> PySlice(_decompress_lz77(payload, uncompressed_size),
                              0, uncompressed_size)]
      [] compression_type = 2 ->
            SqshOfZlib(zlib_decompress(payload), uncompressed_size)
      [] OTHER -> [err |-> "Unknown SQSH compression type", data |-> <<>>]

\* payload = chunk[19 : 19 + compressed_size], unobfuscated when the flag is set
SqshPayload(raw, encryption_flag) ==
    IF encryption_flag # 0 THEN SqshUnobfuscate(raw) ELSE raw

\* HPIParser._decompress_sqsh_chunk: [err, data]; err = "" when it returns,
\* otherwise the exception raised
_decompress_sqsh_chunk(chunk) ==
    IF Len(chunk) < SqshHeaderSize
    THEN [err |-> "SQSH chunk too small", data |-> <<>>]
    ELSE IF SubSeq(chunk, 1, 4) # SqshMagic
    THEN [err |-> "Invalid SQSH magic", data |-> <<>>]
    ELSE SqshDispatch(chunk[6], UnpackU32(chunk, 11),
                      SqshPayload(PySlice(chunk, 19, 19 + UnpackU32(chunk, 7)),
                                  chunk[7]))

(***************************************************************************)
(* Text: a str is a sequence of code points.                               *)
(***************************************************************************)
Slash == <<47>>

\* Python's a < b on sequences of integers (str and bytes compare alike)
RECURSIVE SeqLess(_, _)
SeqLess(a, b) ==
    IF b = <<>> THEN FALSE
    ELSE IF a = <<>> THEN TRUE
    ELSE IF Head(a) # Head(b) THEN Head(a) < Head(b)
    ELSE SeqLess(Tail(a), Tail(b))

\* str.lower() on ASCII text
Lower(t) == [i \in 1..Len(t) |-> IF t[i] >= 65 /\ t[i] <= 90 THEN t[i] + 32 ELSE t[i]]

\* s.encode("ascii", errors="replace"): '?' for every non-ASCII character
AsciiEncode(t) == [i \in 1..Len(t) |-> IF t[i] > 127 THEN 63 ELSE t[i]]

\* bytes.decode("ascii", errors="replace"): U+FFFD for every byte above 127
AsciiDecode(b) == [i \in 1..Len(b) |-> IF b[i] > 127 THEN 65533 ELSE b[i]]

\* f"{path}/{name}" if path else name
JoinPath(path, name) == IF path # <<>> THEN path \o Slash \o name ELSE name

(***************************************************************************)
(* The filesystem tree the assembler reads.  A node is                     *)
(*   [name, kind, data, children]                                          *)
(* with kind "dir", "file" or "other" (neither is_dir() nor is_file(): a   *)
(* socket, a dangling link); children is the directory's content in some   *)
(* listing order, which iterdir() is free to permute.                      *)
(***************************************************************************)
FsFile(name, data) == [name |-> name, kind |-> "file", data |-> data, children |-> <<>>]
FsDir(name, children) == [name |-> name, kind |-> "dir", data |-> <<>>, children |-> children]
FsOther(name) == [name |-> name, kind |-> "other", data |-> <<>>, children |-> <<>>]

Reverse(q) == [i \in 1..Len(q) |-> q[Len(q) + 1 - i]]
Rotate(q) == IF q = <<>> THEN q ELSE Tail(q) \o <<Head(q)>>

IterOrders == {"listed", "reversed", "rotated"}

\* fs_path.iterdir(): the children in the order the filesystem yields them
Iterdir(children, order) ==
    CASE order = "listed" -> children
      [] order = "reversed" -> Reverse(children)
      [] order = "rotated" -> Rotate(children)

\* directories first, but each group by descending name
ScanKeyDescending(a, b) ==
    LET na == IF a.kind = "dir" THEN 0 ELSE 1
        nb == IF b.kind = "dir" THEN 0 ELSE 1
    IN  IF na # nb THEN na < nb ELSE SeqLess(b.name, a.name)

\* the sort key (not p.is_dir(), p.name): a < b
ScanKeyLess(a, b) ==
    LET na == IF a.kind = "dir" THEN 0 ELSE 1
        nb == IF b.kind = "dir" THEN 0 ELSE 1
    IN  IF na # nb THEN na < nb ELSE SeqLess(a.name, b.name)

\* insertion of x into the sorted list q behind every element not greater
RECURSIVE InsertSorted(_, _)
InsertSorted(q, x) ==
    IF q = <<>> THEN <<x>>
    ELSE IF ScanKeyLess(x, Head(q)) THEN <<x>> \o q
    ELSE <<Head(q)>> \o InsertSorted(Tail(q), x)

RECURSIVE SortedInto(_, _)
SortedInto(done, todo) ==
    IF todo = <<>> THEN done
    ELSE SortedInto(InsertSorted(done, Head(todo)), Tail(todo))

\* the children taken in enumeration order, without the sort
ItemsUnsorted(children, order) == Iterdir(children, order)

\* items = sorted(fs_path.iterdir(), key=lambda p: (not p.is_dir(), p.name))
SortedItems(children, order) == SortedInto(<<>>, Iterdir(children, order))

(***************************************************************************)
(* The assembler's directory model.  DirEntry = [name, full_path, subdirs, *)
(* files]; FileEntry = [name, full_path, data, chunk_table_offset,         *)
(* uncompressed_size].                                                     *)
(***************************************************************************)
NewFileEntry(name, full_path, data) ==
    [name |-> name, full_path |-> full_path, data |-> data,
     chunk_table_offset |-> 0, uncompressed_size |-> 0]

\* HPIAssembler._scan_dir: the DirEntry filled from the directory node
RECURSIVE _scan_dir(_, _, _, _)
RECURSIVE ScanItems(_, _, _)
ScanItems(items, dir_entry, order) ==
    IF items = <<>> THEN dir_entry
    ELSE LET item == Head(items)
             path == JoinPath(dir_entry.full_path, item.name)
         IN  CASE item.kind = "dir" ->
                    ScanItems(Tail(items),
                              [dir_entry EXCEPT !.subdirs =
                                  Append(@, _scan_dir(item, item.name, path, order))],
                              order)
               [] item.kind = "file" ->
                    ScanItems(Tail(items),
                              [dir_entry EXCEPT !.files =
                                  Append(@, NewFileEntry(item.name, path, item.data))],
                              order)
               [] OTHER -> ScanItems(Tail(items), dir_entry, order)

_scan_dir(fs_node, name, full_path, order) ==
    LET dir_entry == [name |-> name, full_path |-> full_path,
                      subdirs |-> <<>>, files |-> <<>>]
    IN  IF fs_node.kind # "dir" THEN dir_entry
        ELSE ScanItems(SortedItems(fs_node.children, order), dir_entry, order)

\* HPIAssembler.scan_directory_tree: root_dir = DirEntry(name="", full_path="")
scan_directory_tree(fs_root, order) == _scan_dir(fs_root, <<>>, <<>>, order)

(***************************************************************************)
(* 4.4 / 4.5 The assembler's output buffer.  st = [buffer, current_offset];*)
(* buffer index 0 is file offset 0x14.                                     *)
(***************************************************************************)
HeaderSize == 20

\* the chunk size, 0x10000 in the source, scaled down so that files of
\* several chunks stay small
CHUNK_SIZE == 4
\* the chunk size of the source
CHUNK_SIZE_SRC == 65536

NewBuffer == [buffer |-> <<>>, current_offset |-> HeaderSize]

\* HPIAssembler._write_bytes
_write_bytes(st, data) ==
    [buffer |-> st.buffer \o data, current_offset |-> st.current_offset + Len(data)]

\* HPIAssembler._write_u32
_write_u32(st, value) == _write_bytes(st, PackU32(value))

\* HPIAssembler._write_cstring: [st, offset]
_write_cstring(st, t) ==
    [st |-> _write_bytes(st, AsciiEncode(t) \o <<0>>), offset |-> st.current_offset]

\* a reservation that extends the buffer and leaves current_offset behind
ReserveSpaceNoAdvance(st, size) ==
    [buffer |-> st.buffer \o Zeros(size), current_offset |-> st.current_offset]

\* HPIAssembler._reserve_space
_reserve_space(st, size) ==
    [buffer |-> st.buffer \o Zeros(size), current_offset |-> st.current_offset + size]

\* a chunk count that rounds down and adds one
ChunkCountRoundDownPlusOne(len, chunk_size) == (len \div chunk_size) + 1

\* chunk_count = (len(data) + CHUNK_SIZE - 1) // CHUNK_SIZE (assembler, line 166)
AsmChunkCount(len, chunk_size) == (len + chunk_size - 1) \div chunk_size

\* chunk_data = data[start:end] of chunk i (lines 176-178)
ChunkSlice(data, i) ==
    PySlice(data, i * CHUNK_SIZE, Min(i * CHUNK_SIZE + CHUNK_SIZE, Len(data)))

\* the chunk loop of _write_compressed_file (lines 175-183): [st, chunk_sizes]
RECURSIVE WriteChunks(_, _, _, _, _, _)
WriteChunk(st, data, mode, i, chunk_count, chunk_sizes, compressed_chunk) ==
    WriteChunks(_write_bytes(st, compressed_chunk), data, mode, i + 1, chunk_count,
                Append(chunk_sizes, Len(compressed_chunk)))

WriteChunks(st, data, mode, i, chunk_count, chunk_sizes) ==
    IF i >= chunk_count THEN [st |-> st, chunk_sizes |-> chunk_sizes]
    ELSE WriteChunk(st, data, mode, i, chunk_count, chunk_sizes,
                    _compress_sqsh_chunk(ChunkSlice(data, i), mode))

\* a backfill that records the payload sizes, without the 19 header bytes
RECURSIVE BackfillSizesOfPayloads(_, _, _, _)
BackfillSizesOfPayloads(buf, buffer_offset, chunk_sizes, i) ==
    IF i >= Len(chunk_sizes) THEN buf
    ELSE BackfillSizesOfPayloads(
             PackInto(buf, buffer_offset + i * 4, chunk_sizes[i + 1] - SqshHeaderSize),
             buffer_offset, chunk_sizes, i + 1)

\* the backfill of the chunk table (lines 186-188)
RECURSIVE BackfillSizes(_, _, _, _)
BackfillSizes(buf, buffer_offset, chunk_sizes, i) ==
    IF i >= Len(chunk_sizes) THEN buf
    ELSE BackfillSizes(PackInto(buf, buffer_offset + i * 4, chunk_sizes[i + 1]),
                       buffer_offset, chunk_sizes, i + 1)

\* the end of _write_compressed_file, w being the result of the chunk loop
BackfillChunkTable(w, chunk_table_offset) ==
    [st |-> [w.st EXCEPT !.buffer =
                BackfillSizes(@, chunk_table_offset - HeaderSize, w.chunk_sizes, 0)],
     chunk_table_offset |-> chunk_table_offset]

\* a _write_compressed_file that returns the offset within the buffer
\* instead of the offset within the file
WriteCompressedFileBufferOffset(st, data, mode) ==
    BackfillChunkTable(
        WriteChunks(_reserve_space(st, AsmChunkCount(Len(data), CHUNK_SIZE) * 4),
                    data, mode, 0, AsmChunkCount(Len(data), CHUNK_SIZE), <<>>),
        st.current_offset - HeaderSize)

\* HPIAssembler._write_compressed_file: [st, chunk_table_offset]
_write_compressed_file(st, data, mode) ==
    BackfillChunkTable(
        WriteChunks(_reserve_space(st, AsmChunkCount(Len(data), CHUNK_SIZE) * 4),
                    data, mode, 0, AsmChunkCount(Len(data), CHUNK_SIZE), <<>>),
        st.current_offset)

\* HPIAssembler._write_file_payloads (pass 1): [st, dir_entry], the entry
\* with chunk_table_offset and uncompressed_size recorded on every file
RECURSIVE _write_file_payloads(_, _, _)
RECURSIVE PayloadsOfFiles(_, _, _, _)
RECURSIVE PayloadsOfSubdirs(_, _, _, _)

\* lines 158-159, w being the result of _write_compressed_file
PayloadOfFile(w, files, mode, done) ==
    PayloadsOfFiles(w.st, Tail(files), mode,
                    Append(done, [Head(files) EXCEPT
                                     !.chunk_table_offset = w.chunk_table_offset,
                                     !.uncompressed_size = Len(Head(files).data)]))

PayloadsOfFiles(st, files, mode, done) ==
    IF files = <<>> THEN [st |-> st, files |-> done]
    ELSE PayloadOfFile(_write_compressed_file(st, Head(files).data, mode),
                       files, mode, done)

PayloadsOfSubdir(w, subdirs, mode, done) ==
    PayloadsOfSubdirs(w.st, Tail(subdirs), mode, Append(done, w.dir_entry))

PayloadsOfSubdirs(st, subdirs, mode, done) ==
    IF subdirs = <<>> THEN [st |-> st, subdirs |-> done]
    ELSE PayloadsOfSubdir(_write_file_payloads(st, Head(subdirs), mode),
                          subdirs, mode, done)

PayloadsAfterSubdirs(d, files, dir_entry) ==
    [st |-> d.st,
     dir_entry |-> [dir_entry EXCEPT !.files = files, !.subdirs = d.subdirs]]

PayloadsAfterFiles(f, dir_entry, mode) ==
    PayloadsAfterSubdirs(PayloadsOfSubdirs(f.st, dir_entry.subdirs, mode, <<>>),
                         f.files, dir_entry)

_write_file_payloads(st, dir_entry, mode) ==
    PayloadsAfterFiles(PayloadsOfFiles(st, dir_entry.files, mode, <<>>),
                       dir_entry, mode)

\* a record with the information offset first and the name offset second
BackfillEntrySwapped(buf, entry_offset, e) ==
    [PackInto(PackInto(buf, entry_offset, e[2]), entry_offset + 4, e[1])
        EXCEPT ![entry_offset + 8 + 1] = e[3]]

\* one record of the entry table: name offset, information offset, flags
BackfillEntry(buf, entry_offset, e) ==
    [PackInto(PackInto(buf, entry_offset, e[1]), entry_offset + 4, e[2])
        EXCEPT ![entry_offset + 8 + 1] = e[3]]

\* the backfill of the entry table (lines 361-366)
RECURSIVE BackfillEntries(_, _, _, _)
BackfillEntries(buf, buffer_offset, entries_data, i) ==
    IF i >= Len(entries_data) THEN buf
    ELSE BackfillEntries(BackfillEntry(buf, buffer_offset + i * 9, entries_data[i + 1]),
                         buffer_offset, entries_data, i + 1)

\* HPIAssembler._write_directory_tree (pass 2): [st, dir_offset]
RECURSIVE _write_directory_tree(_, _)
RECURSIVE TreeOfSubdirs(_, _, _)
RECURSIVE TreeOfFiles(_, _, _)

\* lines 346-348, w being the result of the recursive call
TreeSubdirDone(w, name_offset, subdirs, entries_data) ==
    TreeOfSubdirs(w.st, Tail(subdirs),
                  Append(entries_data, <<name_offset, w.dir_offset, 1>>))

\* lines 344-346, n being the result of _write_cstring
TreeSubdirNamed(n, subdirs, entries_data) ==
    TreeSubdirDone(_write_directory_tree(n.st, Head(subdirs)), n.offset,
                   subdirs, entries_data)

\* the loop over the subdirectories (lines 343-348): [st, entries_data]
TreeOfSubdirs(st, subdirs, entries_data) ==
    IF subdirs = <<>> THEN [st |-> st, entries_data |-> entries_data]
    ELSE TreeSubdirNamed(_write_cstring(st, Head(subdirs).name), subdirs, entries_data)

\* lines 354-358, n being the result of _write_cstring
TreeFileNamed(n, files, entries_data) ==
    TreeOfFiles(_write_u32(_write_u32(n.st, Head(files).chunk_table_offset),
                           Head(files).uncompressed_size),
                Tail(files),
                Append(entries_data, <<n.offset, n.st.current_offset, 2>>))

\* the loop over the files (lines 351-358): [st, entries_data]
TreeOfFiles(st, files, entries_data) ==
    IF files = <<>> THEN [st |-> st, entries_data |-> entries_data]
    ELSE TreeFileNamed(_write_cstring(st, Head(files).name), files, entries_data)

\* lines 360-368, f being the state after all children
TreeBackfill(f, node_offset, entry_table_offset) ==
    [st |-> [f.st EXCEPT !.buffer =
                BackfillEntries(@, entry_table_offset - HeaderSize, f.entries_data, 0)],
     dir_offset |-> node_offset]

TreeFiles(d, dir_entry, node_offset, entry_table_offset) ==
    TreeBackfill(TreeOfFiles(d.st, dir_entry.files, d.entries_data),
                 node_offset, entry_table_offset)

\* lines 336-358, st1 being the state after the 8-byte directory header
TreeEntryTable(st1, dir_entry, node_offset) ==
    TreeFiles(TreeOfSubdirs(
                  _reserve_space(st1, (Len(dir_entry.subdirs) + Len(dir_entry.files)) * 9),
                  dir_entry.subdirs, <<>>),
              dir_entry, node_offset, st1.current_offset)

_write_directory_tree(st, dir_entry) ==
    TreeEntryTable(
        _write_u32(_write_u32(st, Len(dir_entry.subdirs) + Len(dir_entry.files)), 0),
        dir_entry, st.current_offset)

HapiMagic == <<72, 65, 80, 73>>            \* b"HAPI"

\* a header whose file_size leaves out the 20 header bytes
BuildHeaderSizeOfBuffer(buf, key, root_offset) ==
    HapiMagic \o <<0, 0, 1, 0>> \o PackU32(Len(buf))
        \o <<key, 0, 0, 0>> \o PackU32(root_offset)

\* HPIAssembler._build_header
_build_header(buf, key, root_offset) ==
    LET total_size == HeaderSize + Len(buf)
    IN  HapiMagic \o <<0, 0, 1, 0>> \o PackU32(total_size)
            \o <<key, 0, 0, 0>> \o PackU32(root_offset)

\* assemble(), lines 105-115: header and obfuscated buffer, t being the
\* result of _write_directory_tree
ArchiveOfTree(t, key) ==
    _build_header(t.st.buffer, key, t.dir_offset)
        \o _encrypt_data(t.st.buffer, transformed_key(key))

\* _build_archive_data(), w being the result of _write_file_payloads
ArchiveOfPayloads(w, key) == ArchiveOfTree(_write_directory_tree(w.st, w.dir_entry), key)

\* HPIAssembler(extracted_root, mode, key).assemble(output): the bytes of the
\* file written when the filesystem lists its directories in the given order
AssembledArchive(fs_root, order, mode, key) ==
    ArchiveOfPayloads(
        _write_file_payloads(NewBuffer, scan_directory_tree(fs_root, order), mode), key)

(***************************************************************************)
(* The parser.  Reads return [ok, val]; ok = FALSE models the exception    *)
(* (struct.error, IndexError) the read raises.                             *)
(***************************************************************************)
\* HPIHeader.__init__ on the first 20 bytes of the file
HPIHeader(data) ==
    [magic |-> SubSeq(data, 1, 4),
     version |-> UnpackU32(data, 4),
     file_size |-> UnpackU32(data, 8),
     key |-> data[13],
     dir_offset_raw |-> UnpackU32(data, 16),
     transformed_key |-> header_transformed_key(data[13])]

\* _to_buffer_offset
_to_buffer_offset(file_offset) == file_offset - HeaderSize

\* struct.unpack_from("<I", buf, idx): a negative idx counts from the end
UnpackFrom(buf, idx) ==
    LET i == IF idx < 0 THEN idx + Len(buf) ELSE idx
    IN  IF i < 0 \/ i + 4 > Len(buf)
        THEN [ok |-> FALSE, val |-> 0]
        ELSE [ok |-> TRUE, val |-> UnpackU32(buf, i)]

\* struct.unpack_from("<II", buf, idx): [ok, a, b]
UnpackFrom2(buf, idx) ==
    LET i == IF idx < 0 THEN idx + Len(buf) ELSE idx
    IN  IF i < 0 \/ i + 8 > Len(buf)
        THEN [ok |-> FALSE, a |-> 0, b |-> 0]
        ELSE [ok |-> TRUE, a |-> UnpackU32(buf, i), b |-> UnpackU32(buf, i + 4)]

\* buf[idx]: a negative idx counts from the end
ByteAt(buf, idx) ==
    LET i == IF idx < 0 THEN idx + Len(buf) ELSE idx
    IN  IF i < 0 \/ i >= Len(buf)
        THEN [ok |-> FALSE, val |-> 0]
        ELSE [ok |-> TRUE, val |-> buf[i + 1]]

\* HPIParser._read_u32
_read_u32(buf, file_offset) == UnpackFrom(buf, _to_buffer_offset(file_offset))

\* buf.find(b"\x00", start): the 0-based index of the first NUL at or after
\* start, -1 when there is none
FindNul(buf, start) ==
    LET a == PyIndex(Len(buf), start)
        hits == {i \in a..(Len(buf) - 1) : buf[i + 1] = 0}
    IN  IF hits = {} THEN -1 ELSE CHOOSE i \in hits : \A x \in hits : i <= x

\* HPIParser._read_cstring
_read_cstring(buf, file_offset) ==
    LET idx == _to_buffer_offset(file_offset)
        found == FindNul(buf, idx)
        end == IF found = -1 THEN Len(buf) ELSE found
    IN  AsciiDecode(PySlice(buf, idx, end))

\* HPIParser._read_bytes
_read_bytes(buf, file_offset, length) ==
    LET idx == _to_buffer_offset(file_offset)
    IN  PySlice(buf, idx, idx + length)

\* None, for the size and chunk_table_offset of a directory entry
None == -1

\* the depth at which the recursion of _parse_directory is cut off
\* (RecursionError); far above the depth of any tree of the model
MaxDepth == 8

\* an index keyed by the full path as it is spelled in the archive
IndexPutExactCase(index, key, entry) ==
    IF \E i \in 1..Len(index) : index[i].key = entry.full_path
    THEN [i \in 1..Len(index) |->
            IF index[i].key = entry.full_path
            THEN [key |-> entry.full_path, entry |-> entry] ELSE index[i]]
    ELSE Append(index, [key |-> entry.full_path, entry |-> entry])

\* path_index[key] = entry on a dict kept as a list of [key, entry] in
\* insertion order: an existing key keeps its place and gets the new entry
IndexPut(index, key, entry) ==
    IF \E i \in 1..Len(index) : index[i].key = key
    THEN [i \in 1..Len(index) |->
            IF index[i].key = key THEN [key |-> key, entry |-> entry] ELSE index[i]]
    ELSE Append(index, [key |-> key, entry |-> entry])

\* HPIEntry(...) as built at lines 115-127, with the name offset it was read
\* with
NewEntry(path, name, name_offset, info_offset, flags) ==
    [name |-> name, full_path |-> JoinPath(path, name),
     data_offset |-> info_offset, flags |-> flags,
     is_directory |-> (flags % 2) = 1,
     is_compressed |-> ((flags \div 2) % 2) = 1,
     size |-> None, chunk_table_offset |-> None,
     children |-> <<>>, name_offset |-> name_offset]

\* path_index.get(archive_path.lower()) of main: [found, entry]
PathIndexGet(index, archive_path) ==
    IF \E i \in 1..Len(index) : index[i].key = Lower(archive_path)
    THEN [found |-> TRUE,
          entry |-> index[CHOOSE i \in 1..Len(index) :
                                index[i].key = Lower(archive_path)].entry]
    ELSE [found |-> FALSE, entry |-> NewEntry(<<>>, <<>>, 0, 0, 0)]

\* HPIParser._parse_directory: [err, entries, index]; index is path_index
\* after the call.  c = [buf, buffer_offset, path, entry_count, depth] is what
\* the loop over the entries leaves alone.
RECURSIVE _parse_directory(_, _, _, _, _)
RECURSIVE ParseEntries(_, _, _, _)

\* lines 135-136
ParseAppend(c, i, entries, index, e) ==
    ParseEntries(c, i + 1, Append(entries, e), IndexPut(index, Lower(e.full_path), e))

\* line 130, sub being the result of the recursive call
ParseDirDone(c, i, entries, entry, sub) ==
    IF sub.err # ""
    THEN [err |-> sub.err, entries |-> entries, index |-> sub.index]
    ELSE ParseAppend(c, i, entries, sub.index, [entry EXCEPT !.children = sub.entries])

\* lines 132-133, rs and rc being the two reads
ParseFileDone(c, i, entries, index, entry, rs, rc) ==
    IF ~rs.ok \/ ~rc.ok
    THEN [err |-> "struct.error", entries |-> entries, index |-> index]
    ELSE ParseAppend(c, i, entries, index,
                     [entry EXCEPT !.size = rs.val, !.chunk_table_offset = rc.val])

\* lines 129-133
ParseEntryNamed(c, i, entries, index, entry) ==
    IF entry.is_directory
    THEN ParseDirDone(c, i, entries, entry,
                      _parse_directory(c.buf, entry.data_offset, entry.full_path,
                                       index, c.depth + 1))
    ELSE ParseFileDone(c, i, entries, index, entry,
                       _read_u32(c.buf, entry.data_offset + 4),
                       _read_u32(c.buf, entry.data_offset))

\* lines 112-127, rn and rf being the reads of the entry record
ParseEntryRead(c, i, entries, index, rn, rf) ==
    IF ~rn.ok THEN [err |-> "struct.error", entries |-> entries, index |-> index]
    ELSE IF ~rf.ok THEN [err |-> "IndexError", entries |-> entries, index |-> index]
    ELSE ParseEntryNamed(c, i, entries, index,
                         NewEntry(c.path, _read_cstring(c.buf, rn.a), rn.a, rn.b, rf.val))

ParseEntries(c, i, entries, index) ==
    IF i >= c.entry_count THEN [err |-> "", entries |-> entries, index |-> index]
    ELSE ParseEntryRead(c, i, entries, index,
                        UnpackFrom2(c.buf, c.buffer_offset + 8 + i * 9),
                        ByteAt(c.buf, c.buffer_offset + 8 + i * 9 + 8))

\* a reader that refuses a node without entries
ParseCountedRefusesEmpty(buf, buffer_offset, path, index, depth, rc) ==
    IF ~rc.ok \/ rc.val = 0
    THEN [err |-> "struct.error", entries |-> <<>>, index |-> index]
    ELSE ParseEntries([buf |-> buf, buffer_offset |-> buffer_offset, path |-> path,
                       entry_count |-> rc.val, depth |-> depth],
                      0, <<>>, index)

\* line 107, rc being the read of entry_count
ParseCounted(buf, buffer_offset, path, index, depth, rc) ==
    IF ~rc.ok
    THEN [err |-> "struct.error", entries |-> <<>>, index |-> index]
    ELSE ParseEntries([buf |-> buf, buffer_offset |-> buffer_offset, path |-> path,
                       entry_count |-> rc.val, depth |-> depth],
                      0, <<>>, index)

_parse_directory(buf, file_offset, path, index, depth) ==
    IF depth > MaxDepth
    THEN [err |-> "RecursionError", entries |-> <<>>, index |-> index]
    ELSE ParseCounted(buf, _to_buffer_offset(file_offset), path, index, depth,
                      UnpackFrom(buf, _to_buffer_offset(file_offset)))

\* HPIParser.parse: [err, entries, index]
parse(hdr, buf) ==
    IF hdr.magic # HapiMagic
    THEN [err |-> "Invalid archive magic", entries |-> <<>>, index |-> <<>>]
    ELSE _parse_directory(buf, hdr.dir_offset_raw, <<>>, <<>>, 0)

\* chunk_count = (total_size + CHUNK_SIZE - 1) // CHUNK_SIZE (parser, line 172)
ParserChunkCount(len, chunk_size) == (len + chunk_size - 1) \div chunk_size

\* chunk_sizes = [_read_u32(chunk_table_offset + i * 4) for i in range(chunk_count)]
RECURSIVE ReadChunkSizes(_, _, _, _, _)
ReadChunkSize(buf, chunk_table_offset, i, chunk_count, sizes, r) ==
    IF ~r.ok THEN [ok |-> FALSE, val |-> sizes]
    ELSE ReadChunkSizes(buf, chunk_table_offset, i + 1, chunk_count, Append(sizes, r.val))

ReadChunkSizes(buf, chunk_table_offset, i, chunk_count, sizes) ==
    IF i >= chunk_count THEN [ok |-> TRUE, val |-> sizes]
    ELSE ReadChunkSize(buf, chunk_table_offset, i, chunk_count, sizes,
                       _read_u32(buf, chunk_table_offset + i * 4))

\* the chunk loop of extract_entry (lines 183-194): [err, data, read], read
\* being the number of chunks read
RECURSIVE ExtractChunks(_, _, _, _, _, _)

\* a loop that goes on to the next chunk when the size has been reached
ExtractChunkDataNoBreak(buf, chunk_sizes, chunk_offset, remaining, data, read, chunk_data) ==
    IF remaining < Len(chunk_data)
    THEN ExtractChunks(buf, Tail(chunk_sizes), chunk_offset + Head(chunk_sizes),
                       0, data \o PySlice(chunk_data, 0, remaining), read + 1)
    ELSE ExtractChunks(buf, Tail(chunk_sizes), chunk_offset + Head(chunk_sizes),
                       remaining - Len(chunk_data), data \o chunk_data, read + 1)

\* lines 186-194, chunk_data being the decompressed chunk
ExtractChunkData(buf, chunk_sizes, chunk_offset, remaining, data, read, chunk_data) ==
    IF remaining < Len(chunk_data)
    THEN [err |-> "", data |-> data \o PySlice(chunk_data, 0, remaining),
          read |-> read + 1]
    ELSE IF remaining - Len(chunk_data) <= 0
    THEN [err |-> "", data |-> data \o chunk_data, read |-> read + 1]
    ELSE ExtractChunks(buf, Tail(chunk_sizes), chunk_offset + Head(chunk_sizes),
                       remaining - Len(chunk_data), data \o chunk_data, read + 1)

\* line 185, r being the result of _decompress_sqsh_chunk
ExtractChunk(buf, chunk_sizes, chunk_offset, remaining, data, read, r) ==
    IF r.err # "" THEN [err |-> r.err, data |-> data, read |-> read]
    ELSE ExtractChunkData(buf, chunk_sizes, chunk_offset, remaining, data, read, r.data)

ExtractChunks(buf, chunk_sizes, chunk_offset, remaining, data, read) ==
    IF chunk_sizes = <<>> THEN [err |-> "", data |-> data, read |-> read]
    ELSE ExtractChunk(buf, chunk_sizes, chunk_offset, remaining, data, read,
                      _decompress_sqsh_chunk(
                          _read_bytes(buf, chunk_offset, Head(chunk_sizes))))

\* line 196, x being the result of the chunk loop
ExtractTruncate(x, total_size) == [x EXCEPT !.data = PySlice(@, 0, total_size)]

\* lines 178-196, cs being the chunk sizes read at lines 174-176
ExtractSized(buf, entry, chunk_count, cs) ==
    IF ~cs.ok THEN [err |-> "struct.error", data |-> <<>>, read |-> 0]
    ELSE ExtractTruncate(
             ExtractChunks(buf, cs.val, entry.chunk_table_offset + 4 * chunk_count,
                           entry.size, <<>>, 0),
             entry.size)

\* lines 174-196
ExtractCounted(buf, entry, chunk_count) ==
    ExtractSized(buf, entry, chunk_count,
                 ReadChunkSizes(buf, entry.chunk_table_offset, 0, chunk_count, <<>>))

\* HPIParser.extract_entry: [err, data, read]
extract_entry(buf, entry) ==
    IF entry.is_directory
    THEN [err |-> "Cannot extract directory", data |-> <<>>, read |-> 0]
    ELSE IF entry.size = None \/ entry.chunk_table_offset = None
    THEN [err |-> "File entry lacks size or chunk metadata", data |-> <<>>, read |-> 0]
    ELSE ExtractCounted(buf, entry, ParserChunkCount(entry.size, CHUNK_SIZE))

\* destination.write_bytes(data) on a tree kept as a list of [path, data]:
\* an existing path is overwritten
WriteFile(dest, path, data) ==
    IF \E i \in 1..Len(dest) : dest[i].path = path
    THEN [i \in 1..Len(dest) |->
            IF dest[i].path = path THEN [path |-> path, data |-> data] ELSE dest[i]]
    ELSE Append(dest, [path |-> path, data |-> data])

\* HPIParser.extract_all: [err, dest]; the files written before an error stay
RECURSIVE ExtractAllFrom(_, _, _, _)

\* the components of dest_dir / full_path below dest_dir, as pathlib keeps
\* them: split at '/', empty and "." components dropped, ".." kept
RECURSIVE PathParts(_, _, _)
PathPartsAdd(parts, cur) ==
    IF cur = <<>> \/ cur = <<46>> THEN parts ELSE Append(parts, cur)

PathParts(t, cur, parts) ==
    IF t = <<>> THEN PathPartsAdd(parts, cur)
    ELSE IF Head(t) = 47 THEN PathParts(Tail(t), <<>>, PathPartsAdd(parts, cur))
    ELSE PathParts(Tail(t), Append(cur, Head(t)), parts)

\* dest_dir / full_path names a directory that exists (dest_dir itself, or
\* the parent of a directory): write_bytes raises IsADirectoryError
TargetIsDirectory(full_path) ==
    \/ PathParts(full_path, <<>>, <<>>) = <<>>
    \/ PathParts(full_path, <<>>, <<>>)[Len(PathParts(full_path, <<>>, <<>>))] = <<46, 46>>

\* HPIParser.extract_to_path, x being the result of extract_entry
extract_to_path(buf, index, i, dest, x) ==
    IF x.err # "" THEN [err |-> x.err, dest |-> dest]
    ELSE IF TargetIsDirectory(index[i].entry.full_path)
    THEN [err |-> "IsADirectoryError", dest |-> dest]
    ELSE ExtractAllFrom(buf, index, i + 1,
                        WriteFile(dest, index[i].entry.full_path, x.data))

ExtractAllFrom(buf, index, i, dest) ==
    IF i > Len(index) THEN [err |-> "", dest |-> dest]
    ELSE IF index[i].entry.is_directory THEN ExtractAllFrom(buf, index, i + 1, dest)
    ELSE extract_to_path(buf, index, i, dest, extract_entry(buf, index[i].entry))

extract_all(buf, index) == ExtractAllFrom(buf, index, 1, <<>>)

(***************************************************************************)
(* SpecObf: one buffer through the obfuscation layer and back.             *)
(***************************************************************************)
\* length of the short buffers, tried with every key byte
MaxObfShort == 2

\* Ramp(n, s, t) = s, s+t, s+2t, ... (n bytes, modulo 256)
Ramp(n, s, t) == [i \in 1..n |-> (s + (i - 1) * t) % 256]

ObfStarts == {0, 127, 235, 255}
ObfSteps == {1, 85}
ObfLongKeys == {0, 1, 42, 64, 128, 255}

ObfShortInputs ==
    {Ramp(n, s, t) : n \in 0..MaxObfShort, s \in ObfStarts, t \in ObfSteps}
ObfLongInputs == {Ramp(MaxObfLen, s, 1) : s \in {0, 200}}

NoResult == [err |-> "", data |-> <<>>]

SqshIdle ==
    /\ cPhase = "idle" /\ cMode = 0 /\ cData = <<>> /\ cChunk = <<>>
    /\ cResult = NoResult

EmptyDir == [name |-> <<>>, full_path |-> <<>>, subdirs |-> <<>>, files |-> <<>>]
NoHeader ==
    [magic |-> <<>>, version |-> 0, file_size |-> 0, key |-> 0,
     dir_offset_raw |-> 0, transformed_key |-> 0]

\* the state of the two sessions before anything is scanned or read
SessionsNew ==
    /\ root_dir = EmptyDir
    /\ buffer = <<>>
    /\ current_offset = HeaderSize
    /\ dir_offset = 0
    /\ header = <<>>
    /\ archive = <<>>
    /\ p_header = NoHeader
    /\ decrypted_data = <<>>
    /\ root_entries = <<>>
    /\ path_index = <<>>
    /\ extracted = <<>>
    /\ p_err = ""

NoLocals == [dbuf |-> <<>>, w1 |-> 0, w2 |-> 0, w3 |-> 0, in_pos |-> 0, out |-> <<>>]

LzIdle ==
    /\ lzPhase = "idle" /\ lzData = <<>> /\ lzRefs = <<>> /\ lzSrc = <<>>
    /\ lzSize = 0 /\ lzD = NoLocals /\ lzOut = <<>>

RefIdle == reference = <<>> /\ missing = <<>> /\ mismatched = <<>>

ArchiveIdle ==
    /\ RefIdle
    /\ phase = "idle"
    /\ fs = FsDir(<<>>, <<>>)
    /\ iter_order = "listed"
    /\ compression_mode = 0
    /\ encryption_key = 0
    /\ SessionsNew

ObfIdle ==
    /\ oPhase = "idle" /\ oKey = 0 /\ oPlain = <<>> /\ oStored = <<>> /\ oBack = <<>>

InitObf ==
    /\ LzIdle
    /\ SqshIdle
    /\ ArchiveIdle
    /\ oPhase = "plain"
    /\ \/ oKey \in Byte /\ oPlain \in ObfShortInputs
       \/ oKey \in ObfLongKeys /\ oPlain \in ObfLongInputs
    /\ oStored = <<>>
    /\ oBack = <<>>

\* HPIAssembler.assemble: encrypted_buffer = _encrypt_data(buffer, transformed_key)
ObfEncrypt ==
    /\ oPhase = "plain"
    /\ oStored' = _encrypt_data(oPlain, transformed_key(oKey))
    /\ oPhase' = "stored"
    /\ UNCHANGED <<oKey, oPlain, oBack, sqshVars, archiveVars, refVars, lzVars>>

\* HPIParser.__init__: decrypted_data = _decrypt_data(raw_data[0x14:], header.transformed_key)
ObfDecrypt ==
    /\ oPhase = "stored"
    /\ oBack' = _decrypt_data(oStored, header_transformed_key(oKey))
    /\ oPhase' = "back"
    /\ UNCHANGED <<oKey, oPlain, oStored, sqshVars, archiveVars, refVars, lzVars>>

NextObf == ObfEncrypt \/ ObfDecrypt

SpecObf == InitObf /\ [][NextObf]_vars

(***************************************************************************)
(* SpecSqsh: one chunk through the SQSH codec and back.                    *)
(***************************************************************************)
\* every byte string over ChunkBytes of length 1..MaxChunkLen is tried
MaxChunkLen == 4
ChunkBytes == {0, 97, 255}

RECURSIVE SeqsUpTo(_, _)
SeqsUpTo(S, n) ==
    IF n = 0 THEN {<<>>}
    ELSE LET shorter == SeqsUpTo(S, n - 1)
         IN  shorter \cup {Append(q, x) : q \in {r \in shorter : Len(r) = n - 1},
                                            x \in S}

\* Periodic(n, p): n bytes 'a', 'b', ... repeating with period p
Periodic(n, p) == [i \in 1..n |-> 97 + ((i - 1) % p)]

\* longer chunks: more than one block of eight symbols, runs longer than the
\* longest match, and a run of zero bytes after a repeated byte
ChunkLongInputs ==
    {Periodic(n, p) : n \in {9, 2 * MaxMatch + 3}, p \in {1, 2, 3, 26}}
        \cup {Ramp(12, 250, 1), <<97, 97>> \o Zeros(20), Zeros(10)}

ChunkInputs == (SeqsUpTo(ChunkBytes, MaxChunkLen) \ {<<>>}) \cup ChunkLongInputs

InitSqsh ==
    /\ LzIdle
    /\ ObfIdle
    /\ ArchiveIdle
    /\ cPhase = "plain"
    /\ cMode \in {0, 1, 2}
    /\ cData \in ChunkInputs
    /\ cChunk = <<>>
    /\ cResult = NoResult

\* HPIAssembler._write_compressed_file: compressed_chunk = _compress_sqsh_chunk(chunk_data)
SqshCompress ==
    /\ cPhase = "plain"
    /\ cChunk' = _compress_sqsh_chunk(cData, cMode)
    /\ cPhase' = "packed"
    /\ UNCHANGED <<cMode, cData, cResult, obfVars, archiveVars, refVars, lzVars>>

\* HPIParser.extract_entry: chunk_data = _decompress_sqsh_chunk(chunk_bytes)
SqshDecompress ==
    /\ cPhase = "packed"
    /\ cResult' = _decompress_sqsh_chunk(cChunk)
    /\ cPhase' = "unpacked"
    /\ UNCHANGED <<cMode, cData, cChunk, obfVars, archiveVars, refVars, lzVars>>

NextSqsh == SqshCompress \/ SqshDecompress

SpecSqsh == InitSqsh /\ [][NextSqsh]_vars

(***************************************************************************)
(* Spec: an assembler session (HPIAssembler.assemble, statement by         *)
(* statement) and then a parser session on the file it wrote               *)
(* (HPIParser(...), parse, extract_all).                                   *)
(***************************************************************************)
\* file bodies: empty, shorter than a chunk, exactly one chunk, one byte
\* more, several chunks; <<97, 97, 0>> is 'a', 'a', NUL
FileBodies ==
    {<<>>, <<97>>, <<97, 97, 0>>, Ramp(3, 254, 1),
     Periodic(CHUNK_SIZE, 2), Periodic(CHUNK_SIZE + 1, 3),
     Periodic(2 * CHUNK_SIZE, 1), Periodic(2 * CHUNK_SIZE + 3, 2)}

\* names: "a", "b", "B", "d", "D", "e", "n", "s", "x", "z", and "Rs" in "Q"
Trees ==
    {FsDir(<<>>, <<>>)}
    \cup {FsDir(<<>>, <<FsFile(<<98>>, c)>>) : c \in FileBodies}
    \cup {FsDir(<<>>, <<FsFile(<<98>>, c), FsFile(<<66>>, <<66>>)>>) : c \in FileBodies}
    \cup {FsDir(<<>>, <<FsFile(<<122>>, <<122>>),
                        FsDir(<<101>>, <<>>),
                        FsDir(<<100>>, <<FsFile(<<110>>, c)>>)>>) : c \in FileBodies}
    \cup {FsDir(<<>>, <<FsOther(<<115>>),
                        FsDir(<<100>>, <<FsDir(<<101>>,
                                               <<FsFile(<<120>>, c)>>)>>)>>) : c \in FileBodies}
    \cup {FsDir(<<>>, <<FsFile(<<98>>, c), FsFile(<<97>>, <<>>),
                        FsFile(<<120>>, Ramp(3, 120, 1))>>) : c \in FileBodies}
    \cup {FsDir(<<>>, <<FsDir(<<100>>, <<FsFile(<<120>>, c)>>),
                        FsDir(<<68>>, <<FsFile(<<120>>, <<68>>)>>)>>) : c \in FileBodies}
    \cup {FsDir(<<>>, <<FsDir(<<81>>, <<FsFile(<<82, 115>>, <<97>>)>>)>>)}

Modes == {0, 1, 2}
Keys == {0, 42, 255}

Init ==
    /\ LzIdle
    /\ ObfIdle
    /\ SqshIdle
    /\ phase = "new"
    /\ fs \in Trees
    /\ iter_order = "listed"
    /\ compression_mode \in Modes
    /\ encryption_key \in Keys
    /\ SessionsNew
    /\ RefIdle

\* assemble(): self.scan_directory_tree()
ScanDirectoryTree ==
    /\ phase = "new"
    /\ \E order \in IterOrders :
          /\ iter_order' = order
          /\ root_dir' = scan_directory_tree(fs, order)
    /\ phase' = "scanned"
    /\ UNCHANGED <<fs, compression_mode, encryption_key, buffer, current_offset,
                   dir_offset, header, archive, parserVars, obfVars, sqshVars, refVars, lzVars>>

\* _build_archive_data(): self._write_file_payloads(self.root_dir)
PayloadsWritten(w) ==
    /\ buffer' = w.st.buffer
    /\ current_offset' = w.st.current_offset
    /\ root_dir' = w.dir_entry

\* the else branch of _compress_sqsh_chunk (lines 205-206) is taken
UnsupportedMode(mode) == mode \notin {0, 1, 2}

\* _write_file_payloads reaches _compress_sqsh_chunk: some file of the tree
\* has a chunk (lines 157-162, 166, 175-180)
RECURSIVE CompressesChunk(_)
CompressesChunk(dir_entry) ==
    \/ \E i \in 1..Len(dir_entry.files) :
           AsmChunkCount(Len(dir_entry.files[i].data), CHUNK_SIZE) > 0
    \/ \E i \in 1..Len(dir_entry.subdirs) : CompressesChunk(dir_entry.subdirs[i])

\* the ValueError leaves assemble(); the object it leaves behind is not used
\* again and is kept as it was
WriteFilePayloads ==
    /\ phase = "scanned"
    /\ IF UnsupportedMode(compression_mode) /\ CompressesChunk(root_dir)
       THEN /\ phase' = "raised"
            /\ UNCHANGED <<buffer, current_offset, root_dir>>
       ELSE /\ PayloadsWritten(_write_file_payloads(
                                  [buffer |-> buffer, current_offset |-> current_offset],
                                  root_dir, compression_mode))
            /\ phase' = "payloads"
    /\ UNCHANGED <<fs, iter_order, compression_mode, encryption_key, dir_offset,
                   header, archive, parserVars, obfVars, sqshVars, refVars, lzVars>>

\* _build_archive_data(): dir_offset = self._write_directory_tree(self.root_dir)
TreeWritten(w) ==
    /\ buffer' = w.st.buffer
    /\ current_offset' = w.st.current_offset
    /\ dir_offset' = w.dir_offset

WriteDirectoryTree ==
    /\ phase = "payloads"
    /\ TreeWritten(_write_directory_tree(
                       [buffer |-> buffer, current_offset |-> current_offset], root_dir))
    /\ phase' = "tree"
    /\ UNCHANGED <<fs, iter_order, compression_mode, encryption_key, root_dir,
                   header, archive, parserVars, obfVars, sqshVars, refVars, lzVars>>

\* assemble(): header = self._build_header(dir_offset)
BuildHeader ==
    /\ phase = "tree"
    /\ header' = _build_header(buffer, encryption_key, dir_offset)
    /\ phase' = "header"
    /\ UNCHANGED <<fs, iter_order, compression_mode, encryption_key, root_dir, buffer,
                   current_offset, dir_offset, archive, parserVars, obfVars, sqshVars, refVars, lzVars>>

\* assemble(): encrypt the buffer, write header and encrypted buffer
WriteArchive ==
    /\ phase = "header"
    /\ archive' = header \o _encrypt_data(buffer, transformed_key(encryption_key))
    /\ phase' = "written"
    /\ UNCHANGED <<fs, iter_order, compression_mode, encryption_key, root_dir, buffer,
                   current_offset, dir_offset, header, parserVars, obfVars, sqshVars, refVars, lzVars>>

\* HPIParser.__init__ on the written file
ParserOpen ==
    /\ phase = "written"
    /\ Len(archive) >= HeaderSize
    /\ p_header' = HPIHeader(PySlice(archive, 0, 20))
    /\ decrypted_data' =
           _decrypt_data(PySlice(archive, HeaderSize, Len(archive)),
                         p_header'.transformed_key)
    /\ phase' = "opened"
    /\ UNCHANGED <<asmVars, root_entries, path_index, extracted, p_err,
                   obfVars, sqshVars, refVars, lzVars>>

\* HPIParser.parse; root_entries is assigned only when nothing is raised
Parsed(r) ==
    /\ root_entries' = IF r.err = "" THEN r.entries ELSE root_entries
    /\ path_index' = r.index
    /\ p_err' = r.err
    /\ phase' = IF r.err = "" THEN "parsed" ELSE "failed"

Parse ==
    /\ phase = "opened"
    /\ Parsed(parse(p_header, decrypted_data))
    /\ UNCHANGED <<asmVars, p_header, decrypted_data, extracted, obfVars, sqshVars, refVars, lzVars>>

\* HPIParser.extract_all into an empty destination directory
Extracted(r) ==
    /\ extracted' = r.dest
    /\ p_err' = r.err
    /\ phase' = IF r.err = "" THEN "extracted" ELSE "failed"

ExtractAll ==
    /\ phase = "parsed"
    /\ Extracted(extract_all(decrypted_data, path_index))
    /\ UNCHANGED <<asmVars, p_header, decrypted_data, root_entries, path_index,
                   obfVars, sqshVars, refVars, lzVars>>

Next ==
    \/ ScanDirectoryTree
    \/ WriteFilePayloads
    \/ WriteDirectoryTree
    \/ BuildHeader
    \/ WriteArchive
    \/ ParserOpen
    \/ Parse
    \/ ExtractAll

Spec == Init /\ [][Next]_vars

\* SpecUnsupported: the same session with a compression mode that
\* _compress_sqsh_chunk does not know
UnsupportedModes == {3, 255}

InitUnsupported ==
    /\ LzIdle
    /\ ObfIdle
    /\ SqshIdle
    /\ phase = "new"
    /\ fs \in Trees
    /\ iter_order = "listed"
    /\ compression_mode \in UnsupportedModes
    /\ encryption_key \in Keys
    /\ SessionsNew
    /\ RefIdle

SpecUnsupported == InitUnsupported /\ [][Next]_vars

(***************************************************************************)
(* SpecForeign: a reader session on an archive of another writer.  It has  *)
(* one file; the chunk table has the slots the declared size asks for, but  *)
(* a chunk holds 0, 1, CHUNK_SIZE or CHUNK_SIZE + 2 bytes, stored, or is no *)
(* SQSH frame at all (piece -1).                                           *)
(***************************************************************************)
MaxForeignChunks == 3
PieceKinds == {-1, 0, 1, CHUNK_SIZE, CHUNK_SIZE + 2}
ForeignSizes == 0..(MaxForeignChunks * CHUNK_SIZE)
ForeignPieces(size) ==
    [1..ParserChunkCount(size, CHUNK_SIZE) -> PieceKinds]

\* the bytes of piece i: 10*i + 1, 10*i + 2, ...
PieceData(i, len) == [j \in 1..len |-> 10 * i + j]

\* the frame of piece i; 'X' for the 'S' of the magic when it is no frame
PieceFrame(i, len) ==
    IF len < 0 THEN <<88>> \o Tail(SqshFrame(<<>>, 0, <<>>))
    ELSE SqshFrame(PieceData(i, len), 0, PieceData(i, len))

\* the frames appended to the buffer: [st, chunk_sizes]
RECURSIVE ForeignChunks(_, _, _, _)
ForeignChunks(st, pieces, i, chunk_sizes) ==
    IF i > Len(pieces) THEN [st |-> st, chunk_sizes |-> chunk_sizes]
    ELSE ForeignChunks(_write_bytes(st, PieceFrame(i, pieces[i])), pieces, i + 1,
                       Append(chunk_sizes, Len(PieceFrame(i, pieces[i]))))

\* the root directory with the one file "f" of the declared size, w being
\* the buffer with the file's chunk table and frames
ForeignRoot(w, size) ==
    _write_directory_tree(
        w.st,
        [EmptyDir EXCEPT !.files =
            <<[NewFileEntry(<<102>>, <<102>>, <<>>) EXCEPT
                  !.chunk_table_offset = w.chunk_table_offset,
                  !.uncompressed_size = size]>>])

ForeignArchive(size, pieces, key) ==
    ArchiveOfTree(
        ForeignRoot(
            BackfillChunkTable(
                ForeignChunks(_reserve_space(NewBuffer, 4 * Len(pieces)), pieces, 1, <<>>),
                HeaderSize),
            size),
        key)

ForeignArchives ==
    UNION {{ForeignArchive(size, pieces, key) : pieces \in ForeignPieces(size)} :
              size \in ForeignSizes, key \in {0, 42}}

InitForeign ==
    /\ LzIdle
    /\ ObfIdle
    /\ SqshIdle
    /\ RefIdle
    /\ phase = "written"
    /\ fs = FsDir(<<>>, <<>>)
    /\ iter_order = "listed"
    /\ compression_mode = 0
    /\ encryption_key = 0
    /\ root_dir = EmptyDir
    /\ buffer = <<>>
    /\ current_offset = HeaderSize
    /\ dir_offset = 0
    /\ header = <<>>
    /\ archive \in ForeignArchives
    /\ p_header = NoHeader
    /\ decrypted_data = <<>>
    /\ root_entries = <<>>
    /\ path_index = <<>>
    /\ extracted = <<>>
    /\ p_err = ""

NextForeign ==
    \/ ParserOpen
    \/ Parse
    \/ ExtractAll

SpecForeign == InitForeign /\ [][NextForeign]_vars

(***************************************************************************)
(* SpecDamaged: a reader session on input that the assembler did not       *)
(* write as it is read: one chunk, or one archive file, altered between    *)
(* the writing and the reading.                                            *)
(***************************************************************************)
\* s with the byte at 0-based index idx replaced
SetByte(s, idx, byte) == [s EXCEPT ![idx + 1] = byte]

\* the chunks made for the damaged reads: one symbol, a run, a period of
\* two, more than eight symbols
DamagedChunkInputs ==
    {<<97>>, <<0, 255>>, Periodic(4, 1), Periodic(6, 2), Periodic(11, 3)}

\* a selector-1 stream that is only the end-of-stream sentinel: flag byte
\* with bit 0 set, back-reference with offset 0
Lz77SentinelOnly == <<1, 0, 0>>

\* what may be read in place of the chunk c made from data with the mode:
\* a wrong checksum, a changed payload byte, a cut header, another magic, an
\* unknown selector, a declared size the payload does not reach, a payload
\* cut short (with its size and checksum adjusted), a bare sentinel
DamagedChunks(c, data, mode) ==
    {SetByte(c, 15, (c[16] + 1) % 256),
     SetByte(c, Len(c) - 1, (c[Len(c)] + 1) % 256),
     SubSeq(c, 1, SqshHeaderSize - 1),
     <<>>,
     SetByte(c, 0, 88),
     SetByte(c, 5, 3),
     SetByte(c, 5, 255),
     PackInto(c, 11, Len(data) + 1),
     PackInto(c, 11, Len(data) + 2 * MaxMatch),
     SqshFrame(data, mode, SubSeq(c, SqshHeaderSize + 1, Len(c) - 1)),
     SqshFrame(data, mode, Lz77SentinelOnly)}

InitDamagedChunk ==
    /\ LzIdle
    /\ ObfIdle
    /\ ArchiveIdle
    /\ cPhase = "plain"
    /\ cMode \in {0, 1, 2}
    /\ cData \in DamagedChunkInputs
    /\ cChunk = <<>>
    /\ cResult = NoResult

\* the chunk is altered where it is stored
DamageChunk ==
    /\ cPhase = "packed"
    /\ cChunk = _compress_sqsh_chunk(cData, cMode)
    /\ cChunk' \in DamagedChunks(cChunk, cData, cMode) \ {cChunk}
    /\ UNCHANGED <<cPhase, cMode, cData, cResult, obfVars, archiveVars, refVars, lzVars>>

\* the trees assembled for the damaged reads: a file of two chunks with a
\* name of four letters ("wxyz"), a file "x" in a directory "dd", and a
\* directory "dd" that holds a directory "e", beside an empty file "n".
\* The bytes are small, so that every four bytes of the buffer read as one
\* number stay below 2^31
DamagedTrees ==
    {FsDir(<<>>, <<FsFile(<<119, 120, 121, 122>>,
                          [i \in 1..(CHUNK_SIZE + 1) |-> 1 + (i % 3)])>>),
     FsDir(<<>>, <<FsDir(<<100, 100>>, <<FsFile(<<120>>, <<97>>)>>)>>),
     FsDir(<<>>, <<FsDir(<<100, 100>>, <<FsDir(<<101>>, <<>>)>>),
                   FsFile(<<110>>, <<>>)>>)}

InitDamagedArchive ==
    /\ LzIdle
    /\ ObfIdle
    /\ SqshIdle
    /\ phase = "new"
    /\ fs \in DamagedTrees
    /\ iter_order = "listed"
    /\ compression_mode \in {0, 1}
    /\ encryption_key \in {0, 42}
    /\ SessionsNew
    /\ RefIdle

\* the 9-byte records of a directory node and of the nodes below it, with
\* the file offset of each: a set of [at, entry, node]
RECURSIVE EntrySlots(_, _, _)
EntrySlots(entries, node_offset, i) ==
    IF i > Len(entries) THEN {}
    ELSE {[at |-> node_offset + 8 + 9 * (i - 1), entry |-> entries[i],
           node |-> node_offset]}
            \cup (IF entries[i].is_directory
                  THEN EntrySlots(entries[i].children, entries[i].data_offset, 1)
                  ELSE {})
            \cup EntrySlots(entries, node_offset, i + 1)

\* offsets below the header's end, and at or behind the end of the file
BadOffsets(file_size) == {0, 12, 19, file_size, file_size + 9}

\* "..", "../x", "/abc", "a/bc"
BadNames == {<<46, 46>>, <<46, 46, 47, 120>>, <<47, 97, 98, 99>>, <<97, 47, 98, 99>>}

\* buf with the bytes at file offset at replaced by those of name
Renamed(buf, at, name) ==
    [i \in 1..Len(buf) |->
        IF i > at - HeaderSize /\ i <= at - HeaderSize + Len(name)
        THEN name[i - (at - HeaderSize)] ELSE buf[i]]

\* the buffers that differ from buf in one stored field: a name offset, an
\* information offset or a chunk-table offset out of range, a directory's
\* information offset set to its own node or to the root, a name replaced
DamagedBuffers(buf, slots, root_offset, file_size) ==
    {PackInto(buf, s.at - HeaderSize, v) : s \in slots, v \in BadOffsets(file_size)}
    \cup {PackInto(buf, s.at - HeaderSize + 4, v) :
            s \in slots, v \in BadOffsets(file_size)}
    \cup {PackInto(buf, s.at - HeaderSize + 4, s.node) :
            s \in {t \in slots : t.entry.is_directory}}
    \cup {PackInto(buf, s.at - HeaderSize + 4, root_offset) :
            s \in {t \in slots : t.entry.is_directory}}
    \cup {PackInto(buf, s.entry.data_offset - HeaderSize, v) :
            s \in {t \in slots : ~t.entry.is_directory}, v \in BadOffsets(file_size)}
    \cup {Renamed(buf, p[1].entry.name_offset, p[2]) :
            p \in {q \in slots \X BadNames : Len(q[2]) = Len(q[1].entry.name)}}

\* the files that may be read in place of the written one: another magic, a
\* root offset out of range, or one field of the buffer changed
DamagedArchives(hdr, buf, key, root_offset) ==
    {SetByte(hdr, 0, 88) \o _encrypt_data(buf, transformed_key(key))}
    \cup {PackInto(hdr, 16, v) \o _encrypt_data(buf, transformed_key(key)) :
            v \in BadOffsets(HeaderSize + Len(buf))}
    \cup {hdr \o _encrypt_data(b, transformed_key(key)) :
            b \in DamagedBuffers(buf,
                                 EntrySlots(parse(HPIHeader(hdr), buf).entries,
                                            root_offset, 1),
                                 root_offset, HeaderSize + Len(buf))}

\* the file is altered where it is stored
DamageArchive ==
    /\ phase = "written"
    /\ archive = header \o _encrypt_data(buffer, transformed_key(encryption_key))
    /\ archive' \in DamagedArchives(header, buffer, encryption_key, dir_offset)
                        \ {archive}
    /\ UNCHANGED <<phase, fs, iter_order, compression_mode, encryption_key, root_dir,
                   buffer, current_offset, dir_offset, header, parserVars,
                   obfVars, sqshVars, refVars, lzVars>>

InitDamaged == InitDamagedChunk \/ InitDamagedArchive

NextDamaged ==
    \/ SqshCompress
    \/ DamageChunk
    \/ SqshDecompress
    \/ ScanDirectoryTree
    \/ WriteFilePayloads
    \/ WriteDirectoryTree
    \/ BuildHeader
    \/ WriteArchive
    \/ DamageArchive
    \/ ParserOpen
    \/ Parse
    \/ ExtractAll

SpecDamaged == InitDamaged /\ [][NextDamaged]_vars

(***************************************************************************)
(* SpecReference: the module-level assemble(extracted_root, output_hpi,   *)
(* compression_mode, encryption_key, reference_hpi): the assembler        *)
(* session, then the validation of the source tree against the reference. *)
(***************************************************************************)
NoNode == [name |-> <<>>, kind |-> "none", data |-> <<>>, children |-> <<>>]

\* the node of the source tree at extracted_root / full_path, parts being
\* the components of full_path (plain names: the references are assembled)
RECURSIVE FsLookup(_, _)
FsLookup(node, parts) ==
    IF parts = <<>> THEN node
    ELSE IF node.kind # "dir" THEN NoNode
    ELSE IF \E i \in 1..Len(node.children) : node.children[i].name = Head(parts)
    THEN FsLookup(node.children[CHOOSE i \in 1..Len(node.children) :
                                    node.children[i].name = Head(parts)],
                  Tail(parts))
    ELSE NoNode

\* Path.exists(): a dangling link does not exist
FsExists(node) == node.kind \in {"dir", "file"}

\* the loop over parser.path_index.values() of assemble, from the i-th
\* entry on: [err, missing, mismatched]
RECURSIVE ValidateEntries(_, _, _, _, _, _)
ValidateExtracted(buf, index, i, fs_root, miss, mism, found, x) ==
    IF x.err # "" THEN [err |-> x.err, missing |-> miss, mismatched |-> mism]
    ELSE IF found.kind = "dir"
    THEN [err |-> "IsADirectoryError", missing |-> miss, mismatched |-> mism]
    ELSE IF x.data # found.data
    THEN ValidateEntries(buf, index, i + 1, fs_root, miss,
                         Append(mism, index[i].entry.full_path))
    ELSE ValidateEntries(buf, index, i + 1, fs_root, miss, mism)

ValidateEntry(buf, index, i, fs_root, miss, mism, found) ==
    IF ~FsExists(found)
    THEN ValidateEntries(buf, index, i + 1, fs_root,
                         Append(miss, index[i].entry.full_path), mism)
    ELSE ValidateExtracted(buf, index, i, fs_root, miss, mism, found,
                           extract_entry(buf, index[i].entry))

ValidateEntries(buf, index, i, fs_root, miss, mism) ==
    IF i > Len(index) THEN [err |-> "", missing |-> miss, mismatched |-> mism]
    ELSE IF index[i].entry.is_directory
    THEN ValidateEntries(buf, index, i + 1, fs_root, miss, mism)
    ELSE ValidateEntry(buf, index, i, fs_root, miss, mism,
                       FsLookup(fs_root,
                                PathParts(index[i].entry.full_path, <<>>, <<>>)))

\* the validation of assemble after parser.parse(): the lists are only
\* printed as warnings, and the function returns
ValidateParsed(hdr, buf, r, fs_root) ==
    IF r.err # ""
    THEN [err |-> r.err, header |-> hdr, buf |-> buf, entries |-> <<>>,
          index |-> r.index, missing |-> <<>>, mismatched |-> <<>>]
    ELSE [header |-> hdr, buf |-> buf, entries |-> r.entries, index |-> r.index]
            @@ ValidateEntries(buf, r.index, 1, fs_root, <<>>, <<>>)

ValidateDecrypted(hdr, buf, fs_root) ==
    ValidateParsed(hdr, buf, parse(hdr, buf), fs_root)

ValidateOpened(hdr, ref, fs_root) ==
    ValidateDecrypted(hdr,
                      _decrypt_data(PySlice(ref, HeaderSize, Len(ref)),
                                    hdr.transformed_key),
                      fs_root)

\* "if reference_hpi and reference_hpi.is_file()" and the block below it
ValidateAgainst(ref, fs_root) ==
    IF ref = <<>>
    THEN [err |-> "", header |-> NoHeader, buf |-> <<>>, entries |-> <<>>,
          index |-> <<>>, missing |-> <<>>, mismatched |-> <<>>]
    ELSE ValidateOpened(HPIHeader(PySlice(ref, 0, 20)), ref, fs_root)

\* source trees: the file "x" with the bytes 'a', with the bytes 'b', beside
\* a file "y", absent, as a directory, as a dangling link, and in a
\* directory "d"
SourceTrees ==
    {FsDir(<<>>, <<FsFile(<<120>>, <<97>>)>>),
     FsDir(<<>>, <<FsFile(<<120>>, <<98>>)>>),
     FsDir(<<>>, <<FsFile(<<120>>, <<97>>), FsFile(<<121>>, <<99>>)>>),
     FsDir(<<>>, <<>>),
     FsDir(<<>>, <<FsDir(<<120>>, <<>>)>>),
     FsDir(<<>>, <<FsOther(<<120>>)>>),
     FsDir(<<>>, <<FsDir(<<100>>, <<FsFile(<<120>>, <<97>>)>>)>>)}

\* the trees the references were assembled from
ReferenceTrees ==
    {FsDir(<<>>, <<FsFile(<<120>>, <<97>>)>>),
     FsDir(<<>>, <<FsFile(<<120>>, <<97>>), FsFile(<<121>>, <<99>>)>>),
     FsDir(<<>>, <<FsDir(<<100>>, <<FsFile(<<120>>, <<97>>)>>)>>),
     FsDir(<<>>, <<>>)}

\* no reference, or an archive written by the assembler
References ==
    {<<>>} \cup {AssembledArchive(t, "listed", m, k) :
                    t \in ReferenceTrees, m \in {0, 2}, k \in {0, 42}}

InitReference ==
    /\ LzIdle
    /\ ObfIdle
    /\ SqshIdle
    /\ phase = "new"
    /\ fs \in SourceTrees
    /\ iter_order = "listed"
    /\ compression_mode \in {0, 2}
    /\ encryption_key \in {0, 42}
    /\ SessionsNew
    /\ reference \in References
    /\ missing = <<>>
    /\ mismatched = <<>>

\* assemble behind assembler.assemble(output_hpi): it returns, or the
\* parser of the reference raises
Validated(r) ==
    /\ p_header' = r.header
    /\ decrypted_data' = r.buf
    /\ root_entries' = r.entries
    /\ path_index' = r.index
    /\ missing' = r.missing
    /\ mismatched' = r.mismatched
    /\ p_err' = r.err
    /\ phase' = IF r.err = "" THEN "returned" ELSE "failed"

ValidateReference ==
    /\ phase = "written"
    /\ Validated(ValidateAgainst(reference, fs))
    /\ UNCHANGED <<asmVars, extracted, reference, obfVars, sqshVars, lzVars>>

NextReference ==
    \/ ScanDirectoryTree
    \/ WriteFilePayloads
    \/ WriteDirectoryTree
    \/ BuildHeader
    \/ WriteArchive
    \/ ValidateReference

SpecReference == InitReference /\ [][NextReference]_vars

(***************************************************************************)
(* SpecLz77: the LZ77 codec on its own.  A session either encodes an input *)
(* with _compress_lz77 and decodes the stream with the input's length as   *)
(* the declared size, or decodes a given stream, well-formed or not, with  *)
(* a given declared size.  The decoder runs pass by pass of its while      *)
(* loop.                                                                   *)
(***************************************************************************)
MaxLzLong == 4200
MaxLzRaw == 4

\* an input longer than the dictionary, so that the cursor wraps, and with
\* a period short enough for matches in the part written after the wrap
LzLongInput == [i \in 1..MaxLzLong |-> (i - 1) % 64]

Lz77Inputs ==
    SeqsUpTo({0, 97}, MaxChunkLen + 1) \cup ChunkLongInputs \cup {LzLongInput}

\* streams of flag bytes 0, 1, 2, literals, the sentinel 0 0, and
\* back-references to index 1 (31 0) and index 2 (31 is 0x1F, 2 is 0x02)
Lz77StreamBytes == {0, 1, 2, 31, 97}

\* eight literals, then a second flag byte: a run of 17 from index 1, a run
\* of 17 from index 8 = cursor - 1, and nothing
Lz77LongStreams ==
    {<<0>> \o Periodic(8, 8) \o t : t \in {<<1, 31, 0>>, <<1, 143, 0>>, <<>>, <<1>>}}

\* a stream whose output passes the end of the dictionary inside a run:
\* eight literals, then groups of a flag byte 255 and eight back-references
\* of length 17, each with the source index one before the cursor
Lz77WrapGroups == 31
Lz77WrapCount(j) == (((8 + MaxMatch * j) % WindowSize) * 16) + 15
Lz77WrapByte(g, r) ==
    IF r = 0 THEN 255
    ELSE IF (r - 1) % 2 = 0 THEN Lz77WrapCount((8 * g) + ((r - 1) \div 2)) % 256
         ELSE Lz77WrapCount((8 * g) + ((r - 1) \div 2)) \div 256
Lz77WrapStream ==
    <<0, 5, 5, 5, 5, 5, 5, 5, 5>>
        \o [p \in 1..(17 * Lz77WrapGroups) |-> Lz77WrapByte((p - 1) \div 17, (p - 1) % 17)]

\* a literal, then a back-reference with source index 0, then more input
Lz77SentinelStreams ==
    {<<2, 97>> \o t \o <<97, 97>> : t \in {<<0, 0>>, <<1, 0>>, <<15, 0>>}}
Lz77Streams ==
    SeqsUpTo(Lz77StreamBytes, MaxLzRaw) \cup Lz77LongStreams
        \cup Lz77SentinelStreams \cup {Lz77WrapStream}

Lz77Sizes == {0, 1, 3, 2 * MaxMatch, MaxLzLong}

Lz77Sessions(inputs) ==
    /\ ObfIdle
    /\ SqshIdle
    /\ ArchiveIdle
    /\ lzRefs = <<>>
    /\ lzD = NoLocals
    /\ lzOut = <<>>
    /\ \/ /\ lzPhase = "plain"
          /\ lzData \in inputs
          /\ lzSrc = <<>>
          /\ lzSize = 0
       \/ /\ lzPhase = "coded"
          /\ lzData = <<>>
          /\ lzSrc \in Lz77Streams
          /\ lzSize \in Lz77Sizes

InitLz77 == Lz77Sessions(Lz77Inputs)

\* the sessions of the termination check: every stream, every input but the
\* longest
InitLz77Live == Lz77Sessions(Lz77Inputs \ {LzLongInput})

\* _compress_lz77(lzData); the stream is then decoded with the length of
\* the input as expected_size, as _decompress_sqsh_chunk does
Lz77Encoded(e) ==
    /\ lzSrc' = e.output
    /\ lzRefs' = e.refs
    /\ lzSize' = Len(lzData)
    /\ lzPhase' = "coded"

Lz77Compress ==
    /\ lzPhase = "plain"
    /\ IF lzData = <<>>
       THEN Lz77Encoded([output |-> <<>>, refs |-> <<>>])
       ELSE Lz77Encoded(Lz77Encoding(lzData))
    /\ UNCHANGED <<lzData, lzD, lzOut, obfVars, sqshVars, archiveVars, refVars>>

\* _decompress_lz77 up to its while loop (lines 251-261)
Lz77Start ==
    /\ lzPhase = "coded"
    /\ IF lzSrc = <<>>
       THEN lzPhase' = "done" /\ lzOut' = <<>> /\ lzD' = lzD
       ELSE lzPhase' = "running" /\ lzOut' = lzOut /\ lzD' = Lz77Begin(lzSrc)
    /\ UNCHANGED <<lzData, lzRefs, lzSrc, lzSize, obfVars, sqshVars, archiveVars,
                   refVars>>

\* the end of a pass n = [d, stop]: a break returns out[:expected_size]
Lz77Passed(n) ==
    /\ lzD' = n.d
    /\ lzPhase' = IF n.stop THEN "done" ELSE "running"
    /\ lzOut' = IF n.stop THEN PySlice(n.d.out, 0, lzSize) ELSE lzOut

\* the test of the while loop and, when it holds, one pass
Lz77Step ==
    /\ lzPhase = "running"
    /\ IF Len(lzD.out) >= lzSize
       THEN Lz77Passed([d |-> lzD, stop |-> TRUE])
       ELSE \E n \in {Lz77Iteration(lzD, lzSrc, lzSize)} : Lz77Passed(n)
    /\ UNCHANGED <<lzData, lzRefs, lzSrc, lzSize, obfVars, sqshVars, archiveVars,
                   refVars>>

NextLz77 ==
    \/ Lz77Compress
    \/ Lz77Start
    \/ Lz77Step

SpecLz77 == InitLz77 /\ [][NextLz77]_vars

\* the interpreter keeps running the call until it returns
SpecLz77Live ==
    InitLz77Live /\ [][NextLz77]_vars /\ WF_vars(Lz77Start) /\ WF_vars(Lz77Step)

(***************************************************************************)
(* Claims.                                                                 *)
(***************************************************************************)

\* C1: SQSH round-trip.  Decoding the chunk the assembler made of C, with
\* any selector, returns exactly C and raises nothing.
C1_SqshRoundTrip ==
    cPhase = "unpacked" => cResult.err = "" /\ cResult.data = cData

\* the files of a source tree as a set of [path, data]
RECURSIVE C2_SourceFiles(_, _)
C2_SourceFiles(children, path) ==
    UNION {IF children[i].kind = "file"
           THEN {[path |-> JoinPath(path, children[i].name), data |-> children[i].data]}
           ELSE IF children[i].kind = "dir"
           THEN C2_SourceFiles(children[i].children, JoinPath(path, children[i].name))
           ELSE {} : i \in 1..Len(children)}

\* C2: archive round-trip.  Assembling a tree, parsing the result and
\* decoding every file entry never fails and yields exactly the files of the
\* tree, each under its path with its bytes.
C2_ArchiveRoundTrip ==
    /\ phase # "failed"
    /\ phase = "extracted" =>
          {extracted[i] : i \in 1..Len(extracted)} = C2_SourceFiles(fs.children, <<>>)

\* the number of regular files of a source tree
RECURSIVE C3_CountFiles(_)
C3_CountFiles(children) ==
    IF children = <<>> THEN 0
    ELSE C3_CountFiles(Tail(children))
            + (IF Head(children).kind = "file" THEN 1
               ELSE IF Head(children).kind = "dir"
               THEN C3_CountFiles(Head(children).children)
               ELSE 0)

\* C3: after assembling and parsing, the path index holds as many
\* non-directory entries as the source tree has files.
C3_IndexFileCount ==
    phase \in {"parsed", "extracted"} =>
        Cardinality({i \in 1..Len(path_index) : ~path_index[i].entry.is_directory})
            = C3_CountFiles(fs.children)

\* C4: obfuscation involution.  Whatever the key byte, decrypting what the
\* assembler encrypted gives back the buffer the assembler built, and
\* applying the assembler's transform a second time does so too.
C4_ObfuscationInvolution ==
    /\ oPhase = "back" => oBack = oPlain
    /\ oPhase \in {"stored", "back"} =>
          _encrypt_data(oStored, transformed_key(oKey)) = oPlain

\* C4 witness: a non-empty buffer that the layer really changed (non-zero
\* effective key) has come back, one long enough for the position byte to
\* wrap.
C4_Witness ==
    /\ oPhase = "back"
    /\ oKey = 42
    /\ Len(oPlain) = MaxObfLen
    /\ oStored # oPlain
    /\ oBack = oPlain

\* the claim's K' = (((K >> 6) | (K << 2)) & 0xFF) XOR 0xFF
C5_EffectiveKey(K) == BitXor(BitAnd(BitOr(K \div 64, K * 4), 255), 255)

\* C5: the layer is the identity only for K = 0; for every K in 1..255
\* every stored byte is NOT(position_byte XOR K' XOR P) & 0xFF.
C5_StoredByteFormula ==
    oPhase \in {"stored", "back"} =>
        /\ Len(oStored) = Len(oPlain)
        /\ oKey = 0 => oStored = oPlain
        /\ oKey \in 1..255 =>
              \A i \in 1..Len(oPlain) :
                  oStored[i] =
                      InvByte(BitXor(BitXor(BitAnd((i - 1) + 20, 255),
                                            C5_EffectiveKey(oKey)), oPlain[i]))

\* C6: header consistency.  In every written archive the u32 at header bytes
\* 8..12 is the length of the file, which is 20 plus the length of the
\* obfuscated buffer.
C6_HeaderFileSize ==
    phase \in {"written", "opened", "parsed", "extracted", "failed"} =>
        /\ UnpackU32(archive, 8) = Len(archive)
        /\ Len(archive) = 20 + Len(buffer)

\* C6 witness: a written archive with an obfuscated, non-empty payload area.
C6_Witness ==
    /\ phase = "written"
    /\ encryption_key = 42
    /\ compression_mode = 1
    /\ Len(archive) > 100
    /\ SubSeq(archive, HeaderSize + 1, Len(archive)) # buffer

C7_InRange(offset, file_size) == offset >= 20 /\ offset < file_size

\* every offset of the entries read from a directory, and of those below
RECURSIVE C7_EntriesInRange(_, _)
C7_EntriesInRange(entries, file_size) ==
    \A i \in 1..Len(entries) :
        /\ C7_InRange(entries[i].name_offset, file_size)
        /\ C7_InRange(entries[i].data_offset, file_size)
        /\ IF entries[i].is_directory
           THEN C7_EntriesInRange(entries[i].children, file_size)
           ELSE C7_InRange(entries[i].chunk_table_offset, file_size)

\* C7: offset safety.  In every written archive the root-directory offset of
\* the header, and every name offset, information offset and chunk-table
\* offset read from its directories, lies in [0x14, file_size).
C7_OffsetSafety ==
    /\ phase \in {"written", "opened", "parsed", "extracted", "failed"} =>
          C7_InRange(UnpackU32(archive, 16), UnpackU32(archive, 8))
    /\ phase # "failed"
    /\ phase \in {"parsed", "extracted"} =>
          C7_EntriesInRange(root_entries, p_header.file_size)

\* C7 witness: a parsed archive whose last payload is a zero-byte file, so
\* that its chunk table offset is the offset of the root directory.
C7_Witness ==
    /\ phase = "parsed"
    /\ \E i \in 1..Len(root_entries) :
          /\ ~root_entries[i].is_directory
          /\ root_entries[i].size = 0
          /\ root_entries[i].chunk_table_offset = p_header.dir_offset_raw
    /\ \E i \in 1..Len(root_entries) :
          ~root_entries[i].is_directory /\ root_entries[i].size > 0

\* ceil(n / d)
C8_Ceil(n, d) == IF n % d = 0 THEN n \div d ELSE (n \div d) + 1

\* the file entries of a scanned tree in the order pass 1 writes them
RECURSIVE C8_PayloadFiles(_)
RECURSIVE C8_FilesOfSubdirs(_)
C8_FilesOfSubdirs(subdirs) ==
    IF subdirs = <<>> THEN <<>>
    ELSE C8_PayloadFiles(Head(subdirs)) \o C8_FilesOfSubdirs(Tail(subdirs))

C8_PayloadFiles(dir_entry) == dir_entry.files \o C8_FilesOfSubdirs(dir_entry.subdirs)

\* the buffer index behind chunks k..n of a file of the given size whose
\* chunk table is at index table and whose chunk k is at index c: each
\* chunk is a SQSH frame as long as its table entry says, holding CHUNK_SIZE
\* uncompressed bytes, the last one the rest; -1 when that is not so
RECURSIVE C8_ChunksEnd(_, _, _, _, _, _)
C8_ChunksEnd(buf, table, k, n, c, size) ==
    IF k > n THEN c
    ELSE IF c + SqshHeaderSize > Len(buf) THEN -1
    ELSE IF /\ SubSeq(buf, c + 1, c + 4) = SqshMagic
            /\ UnpackU32(buf, table + 4 * (k - 1)) = SqshHeaderSize + UnpackU32(buf, c + 7)
            /\ UnpackU32(buf, c + 11) =
                  (IF k < n THEN CHUNK_SIZE ELSE size - (n - 1) * CHUNK_SIZE)
            /\ UnpackU32(buf, c + 11) \in 1..CHUNK_SIZE
         THEN C8_ChunksEnd(buf, table, k + 1, n,
                           c + UnpackU32(buf, table + 4 * (k - 1)), size)
         ELSE -1

\* the file offset behind the payloads of the files, the first of which has
\* its chunk table at file offset at; -1 when a table has not exactly
\* ceil(size / CHUNK_SIZE) entries followed by that many chunks
RECURSIVE C8_PayloadsEnd(_, _, _)
C8_PayloadsBehind(buf, files, end) ==
    IF end = -1 THEN -1 ELSE C8_PayloadsEnd(buf, Tail(files), 20 + end)

C8_PayloadOf(buf, files, at, n) ==
    IF \/ at < 0
       \/ Head(files).chunk_table_offset # at
       \/ Head(files).uncompressed_size # Len(Head(files).data)
       \/ at - 20 + 4 * n > Len(buf)
    THEN -1
    ELSE C8_PayloadsBehind(buf, files,
                           C8_ChunksEnd(buf, at - 20, 1, n, at - 20 + 4 * n,
                                        Len(Head(files).data)))

C8_PayloadsEnd(buf, files, at) ==
    IF files = <<>> THEN at
    ELSE C8_PayloadOf(buf, files, at, C8_Ceil(Len(Head(files).data), CHUNK_SIZE))

\* the file entries read from a directory and from those below
RECURSIVE C8_ParsedFiles(_)
C8_ParsedFiles(entries) ==
    IF entries = <<>> THEN <<>>
    ELSE (IF Head(entries).is_directory THEN C8_ParsedFiles(Head(entries).children)
          ELSE <<Head(entries)>>) \o C8_ParsedFiles(Tail(entries))

\* C8: chunking.  Behind the payload pass every file has a chunk table of
\* exactly ceil(size / CHUNK_SIZE) entries, followed by that many chunks, each
\* but the last holding CHUNK_SIZE uncompressed bytes; the payloads fill the
\* buffer up to the root directory; the parser computes the same count and
\* reads that many chunks; and with the chunk size of the source the counts
\* are 0, 1, 1, 2 for 0, 1, 65536, 65537 bytes.
C8_Chunking ==
    /\ phase = "payloads" =>
          C8_PayloadsEnd(buffer, C8_PayloadFiles(root_dir), 20) = current_offset
    /\ phase \in {"tree", "header", "written", "opened", "parsed", "extracted", "failed"} =>
          C8_PayloadsEnd(buffer, C8_PayloadFiles(root_dir), 20) = dir_offset
    /\ phase \in {"parsed", "extracted"} =>
          \A i \in 1..Len(C8_ParsedFiles(root_entries)) :
              /\ ParserChunkCount(C8_ParsedFiles(root_entries)[i].size, CHUNK_SIZE)
                    = C8_Ceil(C8_ParsedFiles(root_entries)[i].size, CHUNK_SIZE)
              /\ extract_entry(decrypted_data, C8_ParsedFiles(root_entries)[i]).read
                    = C8_Ceil(C8_ParsedFiles(root_entries)[i].size, CHUNK_SIZE)
    /\ \A n \in {0, 1, 65535, 65536, 65537, 131072, 131073} :
          /\ AsmChunkCount(n, CHUNK_SIZE_SRC) = C8_Ceil(n, 65536)
          /\ ParserChunkCount(n, CHUNK_SIZE_SRC) = C8_Ceil(n, 65536)

\* C8 witness: an extracted archive with a zero-byte file and a file of two
\* full chunks and a partial one.
C8_Witness ==
    /\ phase = "extracted"
    /\ \E i, j \in 1..Len(root_dir.files) :
          /\ root_dir.files[i].uncompressed_size = 0
          /\ root_dir.files[j].uncompressed_size = 2 * CHUNK_SIZE + 3
    /\ \E i \in 1..Len(extracted) : Len(extracted[i].data) = 2 * CHUNK_SIZE + 3

\* C9: checksum agreement.  In every emitted chunk the u32 at bytes 15..19
\* is the sum of the payload bytes modulo 2^32 and the u32 at bytes 7..11 is
\* the payload length.
C9_ChecksumAgreement ==
    cPhase \in {"packed", "unpacked"} =>
        LET payload == SubSeq(cChunk, SqshHeaderSize + 1, Len(cChunk))
        IN  /\ Len(cChunk) >= SqshHeaderSize
            /\ UnpackU32(cChunk, 15) = Mask32(SumBytes(payload))
            /\ UnpackU32(cChunk, 7) = Len(payload)

\* C9 witness: a compressed chunk whose payload differs from the plaintext
\* and has a non-zero checksum.
C9_Witness ==
    /\ cPhase = "packed"
    /\ cMode = 1
    /\ SubSeq(cChunk, SqshHeaderSize + 1, Len(cChunk)) # cData
    /\ UnpackU32(cChunk, 15) > 255

\* C10: determinism of assembly.  The archive written is the archive of
\* every run over the same tree with the same mode and key, in whatever
\* order the filesystem lists the children of its directories.
C10_Determinism ==
    phase \in {"written", "opened", "parsed", "extracted", "failed"} =>
        \A order \in IterOrders :
            AssembledArchive(fs, order, compression_mode, encryption_key) = archive

\* C10 witness: an archive written from a tree with several children, which
\* the filesystem listed in another order than the sorted one.
C10_Witness ==
    /\ phase = "written"
    /\ iter_order = "reversed"
    /\ Len(fs.children) = 3
    /\ Iterdir(fs.children, iter_order) # SortedItems(fs.children, iter_order)
    /\ Iterdir(fs.children, iter_order) # Iterdir(fs.children, "listed")

\* the payload of a chunk as stored: the bytes behind its 19-byte header
C11_StoredPayload == PySlice(cChunk, SqshHeaderSize, Len(cChunk))

\* C11: checksum verification.  Decoding a chunk whose stored checksum
\* differs from the sum of its payload bytes fails and returns no data.
C11_ChecksumVerified ==
    (/\ cPhase = "unpacked"
     /\ Len(cChunk) >= SqshHeaderSize
     /\ UnpackU32(cChunk, 15) # Mask32(SumBytes(C11_StoredPayload)))
        => cResult.err # "" /\ cResult.data = <<>>

\* C15: decoder underflow.  A selector-1 chunk whose stream ends before the
\* declared uncompressed size is reached does not decode: when decoding
\* returns, it returns exactly the declared number of bytes.
C15_UnderflowIsError ==
    (/\ cPhase = "unpacked"
     /\ Len(cChunk) >= SqshHeaderSize
     /\ SubSeq(cChunk, 1, 4) = SqshMagic
     /\ cChunk[6] = 1
     /\ cResult.err = "")
        => Len(cResult.data) = UnpackU32(cChunk, 11)

\* C19: stored mode.  With mode 0 the chunk has selector 0, its payload is
\* the plaintext byte for byte, both size fields are the plaintext's length,
\* and decoding returns the plaintext.
C19_StoredMode ==
    cMode = 0 =>
        /\ cPhase \in {"packed", "unpacked"} =>
              /\ cChunk[6] = 0
              /\ SubSeq(cChunk, SqshHeaderSize + 1, Len(cChunk)) = cData
              /\ UnpackU32(cChunk, 7) = Len(cData)
              /\ UnpackU32(cChunk, 11) = Len(cData)
        /\ cPhase = "unpacked" => cResult = [err |-> "", data |-> cData]

\* C19 witness: a stored chunk of several bytes, among them 0 and 255, has
\* been decoded.
C19_Witness ==
    /\ cMode = 0
    /\ cPhase = "unpacked"
    /\ Len(cData) = MaxChunkLen
    /\ {0, 255} \subseteq {cData[i] : i \in 1..Len(cData)}
    /\ cResult.data = cData


\* a chunk that _decompress_sqsh_chunk has to refuse for its format
C16_ChunkFormatInvalid ==
    \/ Len(cChunk) < SqshHeaderSize
    \/ SubSeq(cChunk, 1, 4) # SqshMagic
    \/ cChunk[6] \notin {0, 1, 2}

\* C16: parse raises on a header whose magic is not "HAPI" and leaves
\* root_entries and path_index empty; _decompress_sqsh_chunk raises, and
\* returns no data, on a chunk of fewer than 19 bytes, on a chunk whose
\* magic is not "SQSH", and on a compression selector outside {0, 1, 2}
C16_FormatInvalidRejected ==
    /\ (cPhase = "unpacked" /\ C16_ChunkFormatInvalid)
            => (cResult.err # "" /\ cResult.data = <<>>)
    /\ (phase \in {"parsed", "extracted", "failed"} /\ p_header.magic # HapiMagic)
            => /\ phase = "failed"
               /\ p_err = "Invalid archive magic"
               /\ root_entries = <<>>
               /\ path_index = <<>>

\* parse has refused a file of a directory and a file whose magic was altered
C16_Witness ==
    /\ phase = "failed"
    /\ p_header.magic # HapiMagic
    /\ p_err = "Invalid archive magic"
    /\ root_dir.subdirs # <<>>
    /\ Len(decrypted_data) > 0


\* a file offset behind the header and inside the file that was read
C12_Inside(offset) == offset >= HeaderSize /\ offset < Len(archive)

\* the name offset and the information offset of every entry read from a
\* directory node, and of the entries below it
RECURSIVE C12_EntriesInside(_)
C12_EntriesInside(entries) ==
    \A i \in 1..Len(entries) :
        /\ C12_Inside(entries[i].name_offset)
        /\ C12_Inside(entries[i].data_offset)
        /\ entries[i].is_directory => C12_EntriesInside(entries[i].children)

\* C12: a parse that ended without error followed only offsets (root
\* directory, name, information) of at least 0x14 and inside the archive,
\* and so did an extraction for the chunk table of every file with bytes
C12_OffsetsChecked ==
    /\ phase \in {"parsed", "extracted"}
            => /\ C12_Inside(p_header.dir_offset_raw)
               /\ C12_EntriesInside(root_entries)
    /\ phase = "extracted"
            => \A i \in 1..Len(path_index) :
                    (~path_index[i].entry.is_directory /\ path_index[i].entry.size > 0)
                        => C12_Inside(path_index[i].entry.chunk_table_offset)


\* C13: a directory entry whose information offset leads to its own node or
\* to a node above it is refused when the offset is met again, so that no
\* parse ends by running out of recursion depth
C13_CyclesRejected == phase = "failed" => p_err # "RecursionError"


\* walking the components from a directory depth levels below the
\* destination root, some ".." leads above the root
RECURSIVE C14_Climbs(_, _)
C14_Climbs(parts, depth) ==
    IF parts = <<>> THEN FALSE
    ELSE IF Head(parts) = <<46, 46>>
    THEN depth = 0 \/ C14_Climbs(Tail(parts), depth - 1)
    ELSE C14_Climbs(Tail(parts), depth + 1)

\* dest_dir / full_path lies outside dest_dir: full_path is absolute, which
\* replaces dest_dir, or it climbs above it
C14_Escapes(full_path) ==
    \/ (full_path # <<>> /\ Head(full_path) = 47)
    \/ C14_Climbs(PathParts(full_path, <<>>, <<>>), 0)

\* C14: every file that extraction has written lies under the destination
\* root, whatever names the archive stores
C14_WritesInsideRoot ==
    \A i \in 1..Len(extracted) : ~C14_Escapes(extracted[i].path)


C17_Upper(t) == [i \in 1..Len(t) |-> IF t[i] >= 97 /\ t[i] <= 122 THEN t[i] - 32 ELSE t[i]]

\* the spellings of a path that differ from it in the case of letters only
C17_CaseVariants(t) ==
    {v \in [1..Len(t) -> {c \in 0..127 : \E i \in 1..Len(t) :
                                            c \in {Lower(t)[i], C17_Upper(t)[i]}}] :
        \A i \in 1..Len(t) : v[i] \in {Lower(t)[i], C17_Upper(t)[i]}}

\* the entries of a parsed tree
RECURSIVE C17_EntriesOf(_, _)
C17_EntriesOf(entries, i) ==
    IF i > Len(entries) THEN {}
    ELSE {entries[i]} \cup C17_EntriesOf(entries[i].children, 1)
                      \cup C17_EntriesOf(entries, i + 1)

\* looking the path up gives an entry with that full path, up to case
C17_Found(r, full_path) ==
    r.found /\ Lower(r.entry.full_path) = Lower(full_path)

\* C17: after a parse, every spelling of the full path of every entry of
\* the tree, looked up as main does, gives an entry whose full path is that
\* path up to the case of its letters
C17_CaseInsensitiveLookup ==
    phase \in {"parsed", "extracted"}
        => \A e \in C17_EntriesOf(root_entries, 1) :
             \A v \in C17_CaseVariants(e.full_path) :
                C17_Found(PathIndexGet(path_index, v), e.full_path)

\* the file "Rs" of the directory "Q" was parsed and is found as "q/rs"
C17_Witness ==
    /\ phase = "parsed"
    /\ \E e \in C17_EntriesOf(root_entries, 1) : e.full_path = <<81, 47, 82, 115>>
    /\ PathIndexGet(path_index, <<113, 47, 82, 83>>).found
    /\ PathIndexGet(path_index, <<113, 47, 82, 83>>).entry.full_path = <<81, 47, 82, 115>>


\* the entries of one node as read from its table: no file before a
\* directory, and names ascending among the directories and among the files
C18_NodeOrdered(entries) ==
    \A i, j \in 1..Len(entries) :
        i < j => /\ entries[i].is_directory \/ ~entries[j].is_directory
                 /\ entries[i].is_directory = entries[j].is_directory
                        => SeqLess(entries[i].name, entries[j].name)

RECURSIVE C18_TreeOrdered(_)
C18_TreeOrdered(entries) ==
    /\ C18_NodeOrdered(entries)
    /\ \A i \in 1..Len(entries) : C18_TreeOrdered(entries[i].children)

\* C18: in every directory node of a written archive the entry table lists
\* all subdirectories before all files, each of the two groups in ascending
\* order of name, in whatever order the file system listed the children
C18_CanonicalChildOrder ==
    phase \in {"parsed", "extracted"} => C18_TreeOrdered(root_entries)

\* a node of two directories and a file, scanned from a listing that was
\* not in that order
C18_Witness ==
    /\ phase = "parsed"
    /\ iter_order # "listed"
    /\ Len(root_entries) = 3
    /\ root_entries[1].is_directory
    /\ root_entries[2].is_directory
    /\ ~root_entries[3].is_directory
    /\ Len(root_entries[1].children) = 1


\* C20: a run of assemble that was given a reference and returned without
\* failure found no file of the reference missing from the source tree and
\* none with other bytes there
C20_ValidationFails ==
    (phase = "returned" /\ reference # <<>>)
        => (missing = <<>> /\ mismatched = <<>>)

\* files of the source tree that the reference lacks do not make the run fail
C20_ExtraFilesAccepted ==
    /\ phase = "returned"
    /\ reference # <<>>
    /\ Len(root_dir.files) > Len(path_index)
    /\ missing = <<>>
    /\ mismatched = <<>>


C21_IsEmptyDir(node) == node.kind = "dir" /\ node.children = <<>>

\* the full paths of the source directories without children
RECURSIVE C21_EmptyDirPaths(_, _, _)
C21_EmptyDirPaths(children, path, i) ==
    IF i > Len(children) THEN {}
    ELSE (IF C21_IsEmptyDir(children[i])
          THEN {JoinPath(path, children[i].name)}
          ELSE C21_EmptyDirPaths(children[i].children,
                                 JoinPath(path, children[i].name), 1))
            \cup C21_EmptyDirPaths(children, path, i + 1)

\* the source tree without its directories that have no children
RECURSIVE C21_Pruned(_)
C21_PrunedChildren(kept) ==
    [i \in 1..Len(kept) |-> C21_Pruned(kept[i])]

C21_Pruned(node) ==
    [node EXCEPT !.children =
        C21_PrunedChildren(SelectSeq(@, LAMBDA c : ~C21_IsEmptyDir(c)))]

\* what a parse tells of the entries other than the given directories
C21_Listing(entries, left_out) ==
    {[full_path |-> e.full_path, flags |-> e.flags, size |-> e.size] :
        e \in {x \in C17_EntriesOf(entries, 1) : x.full_path \notin left_out}}

\* parse and extract_all on an archive a: [err, listing, dest]
C21_ReadParsed(buf, r) ==
    [err |-> r.err, listing |-> C21_Listing(r.entries, {}),
     dest |-> extract_all(buf, r.index).dest]

C21_ReadDecrypted(hdr, buf) == C21_ReadParsed(buf, parse(hdr, buf))

C21_ReadOpened(hdr, a) ==
    C21_ReadDecrypted(hdr, _decrypt_data(PySlice(a, HeaderSize, Len(a)),
                                         hdr.transformed_key))

C21_Read(a) == C21_ReadOpened(HPIHeader(PySlice(a, 0, 20)), a)

\* the read of the archive of the same tree without the empty directories
C21_ReadWithout ==
    C21_Read(AssembledArchive(C21_Pruned(fs), iter_order, compression_mode,
                              encryption_key))

\* the entry of an empty directory: flags 0x01, no children, and a node
\* whose entry count is 0
C21_EmptyEntry(e) ==
    /\ e.flags = 1
    /\ e.is_directory
    /\ e.children = <<>>
    /\ _read_u32(decrypted_data, e.data_offset) = [ok |-> TRUE, val |-> 0]

C21_Same(without) ==
    /\ C21_Listing(root_entries, C21_EmptyDirPaths(fs.children, <<>>, 1))
            = without.listing
    /\ phase = "extracted" => extracted = without.dest

C22_RefOk(r) ==
    /\ r.encoded < 65536
    /\ (r.encoded % 65536) \div 16 \in 1..(WindowSize - 1)
    /\ r.offset = (r.encoded % 65536) \div 16
    /\ r.length \in 2..MaxMatch
    /\ r.length <= r.remaining

\* C22: no back-reference of a stream made by _compress_lz77 is the
\* end-of-stream sentinel, also after the cursor has wrapped
C22_NoSentinelEmitted ==
    \A i \in 1..Len(lzRefs) : C22_RefOk(lzRefs[i])

\* a back-reference was emitted after more than 4096 bytes of input, that
\* is after the cursor had wrapped
C22_Witness ==
    /\ lzPhase = "coded"
    /\ Len(lzData) > WindowSize
    /\ \E i \in 1..Len(lzRefs) : Len(lzData) - lzRefs[i].remaining > WindowSize

C27_Count == lzSrc[lzD.in_pos + 1] + 256 * lzSrc[lzD.in_pos + 2]

\* the next pass of the loop reads a back-reference with source index 0
C27_SentinelAhead ==
    /\ lzPhase = "running"
    /\ Len(lzD.out) < lzSize
    /\ BitAnd(lzD.w2, lzD.w3) # 0
    /\ lzD.in_pos + 1 < Len(lzSrc)
    /\ C27_Count \div 16 = 0

\* C27: when the decoder reads a back-reference whose source index is 0, the
\* pass ends the decoding: the result is exactly the bytes emitted before the
\* symbol, nothing is emitted for it, and the read position stops right
\* after its two bytes, whatever follows in the input.
C27_SentinelHalts ==
    [][C27_SentinelAhead =>
          /\ lzPhase' = "done"
          /\ lzOut' = lzD.out
          /\ lzD'.out = lzD.out
          /\ lzD'.in_pos = lzD.in_pos + 2]_vars

\* a decoding ended by a sentinel with bytes emitted before it and input
\* left after it
C27_Witness ==
    /\ lzPhase = "done"
    /\ Len(lzD.out) < lzSize
    /\ BitAnd(lzD.w2, lzD.w3) # 0
    /\ lzD.in_pos >= 3
    /\ (lzSrc[lzD.in_pos - 1] + 256 * lzSrc[lzD.in_pos]) \div 16 = 0
    /\ lzD.in_pos + 1 < Len(lzSrc)
    /\ lzOut # <<>>
    /\ lzOut = lzD.out

C28_Count == lzSrc[lzD.in_pos + 1] + 256 * lzSrc[lzD.in_pos + 2]
C28_Index == C28_Count \div 16
C28_Length == (C28_Count % 16) + 2

\* the next pass of the loop reads a back-reference that is not the sentinel
C28_BackRefAhead ==
    /\ lzPhase = "running"
    /\ Len(lzD.out) < lzSize
    /\ BitAnd(lzD.w2, lzD.w3) # 0
    /\ lzD.in_pos + 1 < Len(lzSrc)
    /\ C28_Index # 0

\* its source index is one before the write cursor
C28_SelfOverlapAhead ==
    /\ C28_BackRefAhead
    /\ C28_Index = (lzD.w1 + WindowSize - 1) % WindowSize

\* the bytes the run emits: its length, cut at the declared size
C28_Emitted == Min(C28_Length, lzSize - Len(lzD.out))

\* byte j (from 0) of the run, in the output after the pass
C28_RunByte(j) == lzD'.out[Len(lzD.out) + j + 1]

\* the byte of the run that was written to the dictionary cell byte j is
\* read from, or j itself and more when the cell is not rewritten before
C28_WrittenBy(j) ==
    (((C28_Index + j) % WindowSize) + WindowSize - lzD.w1) % WindowSize

C28_ReadsWhatWasWritten(j) ==
    C28_RunByte(j) =
        IF C28_WrittenBy(j) < j THEN C28_RunByte(C28_WrittenBy(j))
        ELSE WinGet(lzD.dbuf, (C28_Index + j) % WindowSize)

\* the run as the statement has it: all n bytes, whatever the declared size
C28_UncutRun ==
    [][C28_SelfOverlapAhead =>
          lzD'.out = lzD.out \o [j \in 1..C28_Length |-> lzD.out[Len(lzD.out)]]]_vars

\* C28: within one back-reference, byte k of the run is read from the
\* dictionary after bytes 0..k-1 of the run were written to it, source index
\* and write cursor advancing modulo 4096; a back-reference with source
\* index = cursor - 1 (non-zero) and length n emits copies of the last byte
\* written: n of them, or as many as the declared size leaves room for.
C28_SelfOverlappingRun ==
    [][C28_BackRefAhead =>
          /\ Len(lzD'.out) = Len(lzD.out) + C28_Emitted
          /\ SubSeq(lzD'.out, 1, Len(lzD.out)) = lzD.out
          /\ lzD'.w1 = (lzD.w1 + C28_Emitted) % WindowSize
          /\ \A j \in 0..(C28_Emitted - 1) :
                 /\ C28_ReadsWhatWasWritten(j)
                 /\ WinGet(lzD'.dbuf, (lzD.w1 + j) % WindowSize) = C28_RunByte(j)
                 /\ C28_SelfOverlapAhead => C28_RunByte(j) = lzD.out[Len(lzD.out)]]_vars

\* runs of the last byte written that pass the end of the dictionary, the
\* last of them cut by the declared size
C28_Witness ==
    /\ lzSrc = Lz77WrapStream
    /\ lzSize = MaxLzLong
    /\ lzPhase = "done"
    /\ lzOut = [i \in 1..MaxLzLong |-> 5]
    /\ lzD.w1 = (MaxLzLong + 1) % WindowSize

\* a pass of the loop emits at least one byte or ends the decoding
C30_PassProgress ==
    lzPhase = "running" => (Len(lzD'.out) > Len(lzD.out) \/ lzPhase' = "done")

\* C30: the decoder terminates on every input, well-formed or not, and for
\* every declared size n >= 0: every pass of its loop emits at least one
\* byte or leaves the loop, a decoding that has begun ends, and the result
\* has at most n bytes.
C30_DecoderTerminates ==
    /\ [][C30_PassProgress]_vars
    /\ [](lzPhase = "done" => Len(lzOut) <= lzSize)
    /\ (lzPhase \in {"coded", "running"}) ~> (lzPhase = "done")

\* a malformed stream (a back-reference cut after its first byte) was decoded
\* to the end with fewer bytes than declared
C30_Witness ==
    /\ lzPhase = "done"
    /\ lzData = <<>>
    /\ lzSrc = <<2, 97, 31>>
    /\ lzSize = 3
    /\ lzOut = <<97>>

\* C23: assembling with a compression mode outside {0, 1, 2} fails for every
\* source tree, also an empty one or one with only zero-byte files, and no
\* archive file is written.
C23_UnsupportedModeFails ==
    UnsupportedMode(compression_mode) =>
        /\ archive = <<>>
        /\ phase \in {"new", "scanned", "raised"}

\* the assembly of a tree with a file that has a chunk ended in the error
C23_Witness ==
    /\ UnsupportedMode(compression_mode)
    /\ phase = "raised"
    /\ CompressesChunk(root_dir)
    /\ archive = <<>>

\* slot i (from 0) of the chunk table at buffer index table
C24_Slot(buf, table, i) == UnpackU32(buf, table + 4 * i)

\* the buffer index of chunk i as the parser computes it: behind the n
\* slots of the table and the chunks before it
RECURSIVE C24_Start(_, _, _, _)
C24_Start(buf, table, n, i) ==
    IF i = 0 THEN table + 4 * n
    ELSE C24_Start(buf, table, n, i - 1) + C24_Slot(buf, table, i - 1)

\* a SQSH frame begins at the index, and the slot holds its size
C24_FrameStarts(buf, slot, start) ==
    /\ start + slot <= Len(buf)
    /\ SubSeq(buf, start + 1, start + 4) = SqshMagic
    /\ slot = SqshHeaderSize + UnpackU32(buf, start + 7)

\* the frame of the chunk is what the buffer holds from the index on
C24_FrameAt(buf, slot, start, frame) ==
    /\ C24_FrameStarts(buf, slot, start)
    /\ slot = Len(frame)
    /\ SubSeq(buf, start + 1, start + slot) = frame

C24_FileBackfilled(buf, f, mode, table, n) ==
    \A i \in 0..(n - 1) :
        C24_FrameAt(buf, C24_Slot(buf, table, i), C24_Start(buf, table, n, i),
                    _compress_sqsh_chunk(ChunkSlice(f.data, i), mode))

C24_Written(files) ==
    \A k \in 1..Len(files) :
        C24_FileBackfilled(buffer, files[k], compression_mode,
                           files[k].chunk_table_offset - HeaderSize,
                           AsmChunkCount(Len(files[k].data), CHUNK_SIZE))

C24_EntryAddressed(buf, table, n) ==
    \A i \in 0..(n - 1) :
        C24_FrameStarts(buf, C24_Slot(buf, table, i), C24_Start(buf, table, n, i))

C24_Read(entries) ==
    \A k \in 1..Len(entries) :
        C24_EntryAddressed(decrypted_data,
                           _to_buffer_offset(entries[k].chunk_table_offset),
                           ParserChunkCount(entries[k].size, CHUNK_SIZE))

\* C24: chunk-table backfill.  For every file written by
\* _write_compressed_file, slot i of its chunk table holds the size of the
\* frame of chunk i (19 + payload size), chunk 0 begins right behind the
\* table and chunk i+1 where chunk i ends, so that the offsets the parser
\* computes (table offset + 4*count + the sizes before) are the starts of
\* the frames.
C24_ChunkTableBackfill ==
    /\ phase \in {"payloads", "tree", "header", "written", "opened", "parsed",
                  "extracted"} =>
          C24_Written(C8_PayloadFiles(root_dir))
    /\ phase \in {"parsed", "extracted"} => C24_Read(C8_ParsedFiles(root_entries))

\* a file of three chunks was written and is read back
C24_Witness ==
    /\ phase = "parsed"
    /\ compression_mode = 1
    /\ \E k \in 1..Len(C8_ParsedFiles(root_entries)) :
          /\ C8_ParsedFiles(root_entries)[k].size = 2 * CHUNK_SIZE + 3
          /\ C24_Start(decrypted_data,
                       _to_buffer_offset(C8_ParsedFiles(root_entries)[k].chunk_table_offset),
                       3, 2)
                > _to_buffer_offset(C8_ParsedFiles(root_entries)[k].chunk_table_offset)
                     + 12 + 2 * SqshHeaderSize

\* the bytes of the name and a NUL behind them are at the file offset
C25_NameAt(buf, offset, name) ==
    /\ offset - HeaderSize >= 0
    /\ offset - HeaderSize + Len(name) + 1 <= Len(buf)
    /\ SubSeq(buf, offset - HeaderSize + 1, offset - HeaderSize + Len(name) + 1)
          = AsciiEncode(name) \o <<0>>

\* the 8 bytes recorded in pass 1 for the file are at the file offset
C25_FileInfoAt(buf, offset, f) ==
    /\ offset - HeaderSize >= 0
    /\ offset - HeaderSize + 8 <= Len(buf)
    /\ UnpackU32(buf, offset - HeaderSize) = f.chunk_table_offset
    /\ UnpackU32(buf, offset - HeaderSize + 4) = f.uncompressed_size

\* the directory node at buffer index node is the node of dir_entry: its
\* count, and in record i of the table behind its 8 bytes the offsets and
\* the flag of child i, subdirectories first
RECURSIVE C25_NodeAt(_, _, _)
C25_SubdirRecord(buf, rec, subdir) ==
    /\ C25_NameAt(buf, UnpackU32(buf, rec), subdir.name)
    /\ buf[rec + 8 + 1] = 1
    /\ UnpackU32(buf, rec + 4) >= HeaderSize
    /\ C25_NodeAt(buf, UnpackU32(buf, rec + 4) - HeaderSize, subdir)

C25_FileRecord(buf, rec, f) ==
    /\ C25_NameAt(buf, UnpackU32(buf, rec), f.name)
    /\ buf[rec + 8 + 1] = 2
    /\ C25_FileInfoAt(buf, UnpackU32(buf, rec + 4), f)

C25_NodeAt(buf, node, dir_entry) ==
    /\ node + 8 + 9 * (Len(dir_entry.subdirs) + Len(dir_entry.files)) <= Len(buf)
    /\ UnpackU32(buf, node) = Len(dir_entry.subdirs) + Len(dir_entry.files)
    /\ \A i \in 1..Len(dir_entry.subdirs) :
          C25_SubdirRecord(buf, node + 8 + 9 * (i - 1), dir_entry.subdirs[i])
    /\ \A i \in 1..Len(dir_entry.files) :
          C25_FileRecord(buf, node + 8 + 9 * (Len(dir_entry.subdirs) + i - 1),
                         dir_entry.files[i])

\* C25: entry-table backfill.  Once _write_directory_tree has returned,
\* record i of the 9-byte entry table of every directory node holds the
\* offset of child i's NUL-terminated name, the offset of child i's
\* information block (a directory node for a subdirectory, the 8 bytes of
\* chunk-table offset and size recorded in pass 1 for a file) and the flag
\* 0x01 or 0x02, in every compression mode.
C25_EntryTableBackfill ==
    phase \in {"tree", "header", "written", "opened", "parsed", "extracted"} =>
        C25_NodeAt(buffer, dir_offset - HeaderSize, root_dir)

\* the tree of a root with a file and two directories, one of them with a
\* file, has been written in mode 2
C25_Witness ==
    /\ phase = "tree"
    /\ compression_mode = 2
    /\ Len(root_dir.subdirs) = 2
    /\ Len(root_dir.files) = 1
    /\ \E i \in 1..2 : Len(root_dir.subdirs[i].files) = 1

\* current_offset is the file offset of the end of the buffer
C29_Kept(st) == st.current_offset = HeaderSize + Len(st.buffer)

\* each append keeps that from the state st on, and _write_cstring returns
\* the file offset of the first byte it writes
C29_AppendsKeep(st) ==
    /\ \A data \in {<<>>, <<1, 2>>} : C29_Kept(_write_bytes(st, data))
    /\ \A value \in {0, 70000} : C29_Kept(_write_u32(st, value))
    /\ \A size \in {0, 9} : C29_Kept(_reserve_space(st, size))
    /\ \A t \in {<<>>, <<97, 98>>} :
          /\ C29_Kept(_write_cstring(st, t).st)
          /\ _write_cstring(st, t).offset = HeaderSize + Len(st.buffer)
          /\ C25_NameAt(_write_cstring(st, t).st.buffer, _write_cstring(st, t).offset, t)

\* the backfills of the chunk tables and of the root's entry table, done
\* once more on the buffer, leave its length as it is
C29_BackfillsKeepLength(buf, files, node, entries) ==
    /\ \A k \in 1..Len(files) :
          Len(BackfillSizes(buf, files[k].chunk_table_offset - HeaderSize,
                            [i \in 1..AsmChunkCount(Len(files[k].data), CHUNK_SIZE)
                                |-> SqshHeaderSize + i], 0)) = Len(buf)
    /\ Len(BackfillEntries(buf, node + 8, [i \in 1..entries |-> <<i, i, 1>>], 0))
          = Len(buf)

\* C29: offset bookkeeping of the assembler.  After every _write_bytes,
\* _write_u32, _write_cstring, _reserve_space and every backfill,
\* current_offset = 0x14 + len(buffer); backfills never change the length of
\* the buffer; and every offset the assembler records (chunk tables, names,
\* file tuples, directory nodes) is the buffer index of the item plus 0x14.
C29_OffsetBookkeeping ==
    /\ phase \in {"new", "scanned", "payloads", "tree", "header", "written"} =>
          /\ C29_Kept([buffer |-> buffer, current_offset |-> current_offset])
          /\ C29_AppendsKeep([buffer |-> buffer, current_offset |-> current_offset])
    /\ phase \in {"payloads", "tree", "header", "written"} =>
          C24_Written(C8_PayloadFiles(root_dir))
    /\ phase \in {"tree", "header", "written"} =>
          /\ C25_NodeAt(buffer, dir_offset - HeaderSize, root_dir)
          /\ C29_BackfillsKeepLength(buffer, C8_PayloadFiles(root_dir),
                                     dir_offset - HeaderSize,
                                     Len(root_dir.subdirs) + Len(root_dir.files))

\* both passes are done on a tree with chunk tables and entry tables to
\* backfill
C29_Witness ==
    /\ phase = "tree"
    /\ current_offset > HeaderSize + 3 * SqshHeaderSize
    /\ Len(root_dir.subdirs) > 0
    /\ \E k \in 1..Len(C8_PayloadFiles(root_dir)) :
          Len(C8_PayloadFiles(root_dir)[k].data) > 2 * CHUNK_SIZE

\* chunk i (from 0) of the file decoded on its own: the frame the table
\* gives, through _decompress_sqsh_chunk
C26_Decoded(buf, table, n, i) ==
    _decompress_sqsh_chunk(
        PySlice(buf, C24_Start(buf, table, n, i),
                C24_Start(buf, table, n, i) + C24_Slot(buf, table, i)))

\* the decoded chunks 0..k-1 one after another
RECURSIVE C26_Concat(_, _, _, _)
C26_Concat(buf, table, n, k) ==
    IF k = 0 THEN <<>>
    ELSE C26_Concat(buf, table, n, k - 1) \o C26_Decoded(buf, table, n, k - 1).data

C26_AllDecode(buf, table, n) ==
    \A i \in 0..(n - 1) : C26_Decoded(buf, table, n, i).err = ""

\* x, the result of extract_entry, against the chunks of the file
C26_Agrees(x, buf, size, table, n) ==
    /\ Len(x.data) <= size
    /\ x.read <= n
    /\ \A j \in 1..x.read : Len(C26_Concat(buf, table, n, j - 1)) < size
    /\ x.err = "" =>
          /\ x.data = PySlice(C26_Concat(buf, table, n, x.read), 0, size)
          /\ x.read < n => Len(C26_Concat(buf, table, n, x.read)) >= size
    /\ x.err # "" =>
          /\ x.read < n
          /\ C26_Decoded(buf, table, n, x.read).err = x.err
    /\ C26_AllDecode(buf, table, n) =>
          /\ x.err = ""
          /\ x.data = PySlice(C26_Concat(buf, table, n, n), 0, size)

C26_Extracts(entries) ==
    \A k \in 1..Len(entries) :
        C26_Agrees(extract_entry(decrypted_data, entries[k]), decrypted_data,
                   entries[k].size,
                   _to_buffer_offset(entries[k].chunk_table_offset),
                   ParserChunkCount(entries[k].size, CHUNK_SIZE))

\* C26: file-level truncation.  extract_entry returns the decoded chunks in
\* table order, one after another, cut at the declared size of the entry;
\* the result never has more bytes than that, and no chunk is read once the
\* declared size has been reached.
C26_FileTruncation ==
    phase \in {"parsed", "extracted", "failed"} =>
        C26_Extracts(C8_ParsedFiles(root_entries))

\* a file of declared size 2 * CHUNK_SIZE + 1 was extracted from two chunks
\* of CHUNK_SIZE + 2 bytes, the second one cut; the third slot of its table
\* leads to no SQSH frame and was not read
C26_Witness ==
    /\ phase = "extracted"
    /\ Len(root_entries) = 1
    /\ root_entries[1].size = 2 * CHUNK_SIZE + 1
    /\ Len(extracted) = 1
    /\ Len(extracted[1].data) = 2 * CHUNK_SIZE + 1
    /\ extract_entry(decrypted_data, root_entries[1]).read = 2
    /\ Len(C26_Concat(decrypted_data,
                      _to_buffer_offset(root_entries[1].chunk_table_offset), 3, 2))
          = 2 * CHUNK_SIZE + 4
    /\ C26_Decoded(decrypted_data,
                   _to_buffer_offset(root_entries[1].chunk_table_offset), 3, 2).err # ""

====
